---- MODULE Spec2Model ----
(***************************************************************************)
(* Model of security-notification-app (src/src/index.ts, first definition  *)
(* of NotificationManager, lines 27-339, and SecurityNotificationWorker,   *)
(* lines 342-461).                                                         *)
(*                                                                         *)
(* A run of checkAndNotifySecurityEvents is cut at its awaits on external  *)
(* I/O (the upstream fetch, each PROCESSED_EVENTS.get, the endpoint        *)
(* fetches joined by Promise.all, each PROCESSED_EVENTS.put).  Between two *)
(* such awaits the JavaScript of one invocation runs without interleaving. *)
(* The ctx.storage operations sit inside one step.                         *)
(***************************************************************************)
EXTENDS Integers, Sequences, FiniteSets, TLC

\* ------------------------------------------------------------------ bounds

MaxEvents == 2      \* longest upstream result of one poll
MaxBatch == 2       \* longest batch handed to a direct dispatch call
MaxSlackBatch == 7  \* longest batch rendered for a chat-webhook message
MaxPolls == 3       \* scheduled invocations in a row
MaxDays == 1        \* days that go by

\* now.getTime() - 5 * 60 * 1000, in minutes
Window == 5

\* cron: '*/5 * * * *', in minutes
Interval == 5

\* expirationTtl: 86400, in seconds
expirationTtl == 86400

\* the minutes a marker lives
MarkerLife == expirationTtl \div 60

\* events.slice(0, 5), events.length > 5, events.length - 5
DetailLimit == 5

\* --------------------------------------------------------------- universes

Absent == "<undefined>"          \* a missing field / a null KV value

\* the entry points that run the pipeline: scheduled, POST /api/check-events
\* and the RPC method checkSecurityEvents
Procs == {"scheduled", "manual", "rpc"}
\* a caller of sendNotificationsBatch / sendNotifications on the object
Callers == {"direct"}
Tasks == Procs \cup Callers

EndpointIds == {"ep1", "ep2", "ep3"}

\* storage.list returns the keys in lexicographic order
EndpointOrder == <<"ep1", "ep2", "ep3">>

\* interface NotificationEndpoint
NotificationEndpoint(id, enabled) ==
    CASE id = "ep1" -> [id |-> id, name |-> "Ops webhook", type |-> "webhook",
                        url |-> "https://example.com/hook", email |-> Absent,
                        enabled |-> enabled, createdAt |-> "t0"]
      [] id = "ep2" -> [id |-> id, name |-> "Sec channel", type |-> "slack",
                        url |-> "https://hooks.slack.com/x", email |-> Absent,
                        enabled |-> enabled, createdAt |-> "t0"]
      [] OTHER      -> [id |-> id, name |-> "Sec mail", type |-> "email",
                        url |-> Absent, email |-> "sec@example.com",
                        enabled |-> enabled, createdAt |-> "t0"]

\* the registries the management operations can build over EndpointIds:
\* a map from the ids stored under endpoint:<id> to their records
Registries ==
    UNION {{[i \in S |-> NotificationEndpoint(i, en[i])] : en \in [S -> BOOLEAN]} :
           S \in SUBSET EndpointIds}

\* raw records of the upstream events API
RawRecords ==
    { [ray_id |-> "r1", action |-> "block", rule_message |-> "SQLi"],
      [ray_id |-> "r2", action |-> "challenge", rule_message |-> Absent],
      [ray_id |-> "r3", action |-> "allow", rule_message |-> "Logged"] }

\* raw records of any kind: actions on and off the allow-list or missing,
\* rule_message set, empty or missing, and ids shared between records
AnyRawRecords ==
    RawRecords \cup
    { [ray_id |-> "r1", action |-> "jschallenge", rule_message |-> ""],
      [ray_id |-> "r2", action |-> "log", rule_message |-> "Noise"],
      [ray_id |-> "r3", action |-> Absent, rule_message |-> Absent],
      [ray_id |-> "r3", action |-> "managed_challenge", rule_message |-> "Bot"] }

EventIds == {r.ray_id : r \in RawRecords}

\* raw records with the minute they occurred at
WindowRecords ==
    { [ray_id |-> "r1", action |-> "block", rule_message |-> "SQLi", occurred_at |-> 3],
      [ray_id |-> "r2", action |-> "challenge", rule_message |-> Absent, occurred_at |-> 5],
      [ray_id |-> "r3", action |-> "allow", rule_message |-> "Logged", occurred_at |-> 8] }

SeqsUpTo(S, n) == UNION {[1..k -> S] : k \in 0..n}

\* -------------------------------------------------------------- the state

VARIABLES
    storage,            \* ctx.storage: endpoint:<id> -> NotificationEndpoint
    PROCESSED_EVENTS,   \* env.PROCESSED_EVENTS: event:<id> -> serialized event
    run,                \* per invocation: its frame (see Frame)
    lost,               \* history: ids of the batches in which a send failed
    crashed,            \* history: ids left unmarked by a run that stopped
    afterFailure,       \* history: the last finished poll ended on a failed fetch
    request,            \* history: the last management request and its answer
    created,            \* history: per stored id, its latest add and later toggle
    slack,              \* sendSlackBatch: its events argument and its message
    clock,              \* the time, in minutes (new Date() reads it)
    feed,               \* the records the upstream events API holds
    calls,              \* a toggleEndpoint and a removeEndpoint call in progress
    expiration,         \* the minute each key of PROCESSED_EVENTS expires at
    posts,              \* the POST /api/endpoints requests in progress
    unsent,             \* history: ids marked by a run that made no send
    halfMarked          \* history: the batch of the last run whose marking failed

vars == <<storage, PROCESSED_EVENTS, run, lost, crashed, afterFailure, request,
          created, slack, clock, feed, calls, expiration, posts, unsent, halfMarked>>

\* ------------------------------------------------------- pure functions

\* JavaScript truthiness of a KV value (string | null) or an optional field
Truthy(v) == v # Absent /\ v # ""

\* faulty variant of allowedActions: log is let through
allowedActionsLoose == {"block", "challenge", "jschallenge", "log"}

\* const allowedActions
allowedActions == {"block", "challenge", "jschallenge"}

\* the SecurityEvent built from one raw record (the fields the pipeline
\* only passes through are left out)
\* faulty variant of SecurityEvent: the || 'Unknown' default is missing
SecurityEventNoDefault(raw) ==
    [id |-> raw.ray_id, action |-> raw.action, ruleName |-> raw.rule_message]

SecurityEvent(raw) ==
    [id |-> raw.ray_id,
     action |-> raw.action,
     ruleName |-> IF Truthy(raw.rule_message) THEN raw.rule_message ELSE "Unknown"]

\* data.result.filter(...).map(...)
fetchSecurityEvents(result) ==
    LET kept == SelectSeq(result, LAMBDA r : r.action \in allowedActions)
    IN  [k \in 1..Len(kept) |-> SecurityEvent(kept[k])]

\* faulty variant of fetchThrows: the response.ok check is missing
fetchThrowsUnlessStatus(outcome) == outcome \in {"network_error", "bad_body"}

\* fetchSecurityEvents throws: fetch rejected, the response is not ok, or
\* response.json() / data.result fails on the body
fetchThrows(outcome) == outcome # "ok"

\* JSON.stringify(event), the marker's value
Serialized(ev) ==
    "{" \o ev.id \o "," \o ev.action \o "," \o ev.ruleName \o "}"

\* faulty variant of isUnprocessed: the marker is not consulted
isUnprocessedAlways(processed) == TRUE

\* if (!processed)
isUnprocessed(processed) == ~Truthy(processed)

\* faulty variant of getEndpoints: only the enabled records are listed
getEndpointsEnabled(reg) ==
    LET present == SelectSeq(EndpointOrder,
                             LAMBDA i : i \in DOMAIN reg /\ reg[i].enabled)
    IN  [k \in 1..Len(present) |-> reg[present[k]]]

\* Array.from(entries.values()) of storage.list({prefix: 'endpoint:'})
getEndpoints(reg) ==
    LET present == SelectSeq(EndpointOrder, LAMBDA i : i \in DOMAIN reg)
    IN  [k \in 1..Len(present) |-> reg[present[k]]]

\* faulty variant of activeEndpoints: the enabled filter is missing
activeEndpointsAll(eps) == eps

\* endpoints.filter(ep => ep.enabled)
activeEndpoints(eps) == SelectSeq(eps, LAMBDA ep : ep.enabled)

\* faulty variant of promiseFor: a request is made for an email endpoint too
promiseForEmailSends(ep) ==
    CASE ep.type = "webhook" -> "pending"
      [] ep.type = "slack"   -> "pending"
      [] ep.type = "email"   -> "pending"
      [] OTHER               -> "skipped"

\* the promise sendToEndpointsBatch builds for one endpoint: a fetch in
\* flight for webhook and slack, Promise.resolve() after the log for email
promiseFor(ep) ==
    CASE ep.type = "webhook" -> "pending"
      [] ep.type = "slack"   -> "pending"
      [] ep.type = "email"   -> "logged"
      [] OTHER               -> "skipped"

\* console.log(`Email notification to ${endpoint.email} for ${events.length}
\* events`): the lines sendToEndpointsBatch writes for the endpoints handed in
emailLogs(eps, evs) ==
    IF Len(evs) = 0 THEN {}
    ELSE {[email |-> eps[k].email, count |-> Len(evs)] :
             k \in {n \in 1..Len(eps) : eps[n].type = "email"}}

\* faulty variant of sendWebhookBatch: the envelope of the single-event
\* sendWebhook, with the first event only
sendWebhookBatchSingle(evs, now) ==
    [type |-> "cloudflare_security_event", events |-> <<evs[1]>>, count |-> 1,
     timestamp |-> now]

\* the body sendWebhookBatch posts: JSON.stringify({type, events, count,
\* timestamp})
sendWebhookBatch(evs, now) ==
    [type |-> "cloudflare_security_events_batch", events |-> evs, count |-> Len(evs),
     timestamp |-> now]

\* the body posted to the webhook endpoints among those handed to
\* sendToEndpointsBatch, if there is one and the batch is not empty
webhookBody(eps, evs, now) ==
    IF Len(evs) > 0 /\ \E k \in 1..Len(eps) : eps[k].type = "webhook"
    THEN sendWebhookBatch(evs, now)
    ELSE <<>>

\* sendWebhookBatch / sendSlackBatch as a promise: fetch rejects on a network
\* error, and a response that is not ok is thrown
sendBatchSettles(outcome) == IF outcome = "ok" THEN "fulfilled" ELSE "rejected"

\* faulty variant of endpointCatch: the per-endpoint .catch is missing
endpointNoCatch(settled) == settled

\* .catch(err => console.error(`Failed to send batch to ... ${endpoint.name}`))
endpointCatch(settled) == "fulfilled"

\* faulty variant of promiseAll: Promise.any, which fulfils with the first
\* promise that does
promiseAny(states) ==
    IF "fulfilled" \in states THEN "fulfilled"
    ELSE IF "pending" \in states THEN "pending"
    ELSE "rejected"

\* Promise.all over the per-endpoint promises: rejects with the first
\* rejection, fulfils once every promise has
promiseAll(states) ==
    IF "rejected" \in states THEN "rejected"
    ELSE IF "pending" \in states THEN "pending"
    ELSE "fulfilled"

\* faulty variant of catchTopLevel: the error is thrown on
catchRethrows(thrown) == "rejected"

\* try { ... } catch (error) { console.error(...) } of
\* checkAndNotifySecurityEvents: what the method settles to after a throw
catchTopLevel(thrown) == "fulfilled"

\* how an entry point answers once the awaited call has settled
entryReply(settled) == IF settled = "fulfilled" THEN "success" ELSE "error"

FetchOutcomes == {"ok", "http_error", "network_error", "bad_body"}
SendOutcomes == {"ok", "http_error", "network_error"}
StoreOutcomes == {"ok", "error"}


\* ------------------------------------------------------------ the frame

NoSends == [i \in EndpointIds |-> "none"]

NoRequests == [i \in EndpointIds |-> 0]

\* the requests made once the promises s have been built
requestsWith(r, s) ==
    [i \in EndpointIds |-> IF s[i] = "pending" THEN r.requests[i] + 1 ELSE r.requests[i]]

\* no answer of the upstream events API has arrived
NoResponse == [outcome |-> "none", result |-> <<>>]

\* the frame of an invocation that is not running
Frame ==
    [pc |-> "idle",             \* where the invocation stands
     events |-> <<>>,           \* checkAndNotifySecurityEvents: const events
     idx |-> 0,                 \* position of the event being looked up
     unprocessedEvents |-> <<>>,\* checkAndNotifySecurityEvents: unprocessedEvents
     batch |-> <<>>,            \* the events argument of sendNotificationsBatch
     endpoints |-> <<>>,        \* sendNotificationsBatch: const endpoints
     sends |-> NoSends,         \* sendToEndpointsBatch: promises, by endpoint id
     markIdx |-> 0,             \* position in unprocessedEvents being marked
     reply |-> "none",          \* what the entry point reported
     \* history of this invocation
     picked |-> <<>>,           \* fetched positions pushed to unprocessedEvents
     hits |-> {},               \* fetched positions whose marker was present
     sawLost |-> {},            \* fetched positions whose id was in lost at lookup
     sawCrashed |-> {},         \* fetched positions whose id was in crashed at lookup
     written |-> {},            \* fetched positions whose marker this run wrote
     caught |-> "none",         \* what the top-level catch logged
     upstream |-> "none",       \* outcome of the upstream fetch
     response |-> NoResponse,   \* the upstream answer, from its arrival until read
     joined |-> FALSE,          \* Promise.all of the dispatch has fulfilled
     errors |-> {},             \* names in the console.error lines of the .catch
     requests |-> NoRequests,   \* outbound requests made so far, by endpoint id
     since |-> 0,               \* fiveMinutesAgo, the start of the window queried
     until |-> 0,               \* now, the end of the window queried
     logs |-> {},               \* the console.log lines of the email case
     body |-> <<>>,             \* the body posted to the webhook endpoints
     called |-> "none",         \* the dispatch method a direct caller invoked
     fetches |-> 0,             \* upstream requests this invocation has made
     reads |-> 0,               \* PROCESSED_EVENTS.get calls that have returned
     writes |-> 0]              \* PROCESSED_EVENTS.put calls that have returned

\* the state of the promise behind one entry of sends
PromiseState(v) ==
    CASE v = "pending" -> "pending"
      [] v \in SendOutcomes -> endpointCatch(sendBatchSettles(v))
      [] OTHER -> "fulfilled"

\* the invocation ends: the method settles and the entry point answers
Finish(r, settled, what) ==
    [r EXCEPT !.pc = "done", !.caught = what, !.reply = entryReply(settled)]

\* an exception reaches the top-level catch of checkAndNotifySecurityEvents
Throw(r, what) == Finish(r, catchTopLevel(what), what)

\* faulty variant of dispatchSettled: a run whose dispatch had a failed send ends
\* without marking
dispatchSettledStrict(t, r, settled) ==
    IF t \in Procs
    THEN IF settled = "fulfilled" /\ \A i \in EndpointIds : r.sends[i] \in {"none", "logged", "ok"}
         THEN [r EXCEPT !.joined = TRUE, !.pc = "marking", !.markIdx = 1]
         ELSE IF settled = "fulfilled"
              THEN Finish([r EXCEPT !.joined = TRUE], "fulfilled", "none")
              ELSE Throw(r, "dispatch")
    ELSE Finish([r EXCEPT !.joined = (settled = "fulfilled")], settled, "none")

\* faulty variant of dispatchSettled: a run that had no endpoint to send to
\* ends without marking
dispatchSettledUnlessEmpty(t, r, settled) ==
    IF t \in Procs
    THEN IF settled = "fulfilled" /\ \E i \in EndpointIds : r.sends[i] # "none"
         THEN [r EXCEPT !.joined = TRUE, !.pc = "marking", !.markIdx = 1]
         ELSE IF settled = "fulfilled"
              THEN Finish([r EXCEPT !.joined = TRUE], "fulfilled", "none")
              ELSE Throw(r, "dispatch")
    ELSE Finish([r EXCEPT !.joined = (settled = "fulfilled")], settled, "none")

\* sendNotificationsBatch has settled: a trigger's run goes on to mark (or its
\* catch takes the rejection), a direct caller gets its answer
dispatchSettled(t, r, settled) ==
    IF t \in Procs
    THEN IF settled = "fulfilled"
         THEN [r EXCEPT !.joined = TRUE, !.pc = "marking", !.markIdx = 1]
         ELSE Throw(r, "dispatch")
    ELSE Finish([r EXCEPT !.joined = (settled = "fulfilled")], settled, "none")

\* faulty variant of afterLookups: the new events are marked before they are sent
afterLookupsMarkFirst(r) ==
    IF Len(r.unprocessedEvents) > 0
    THEN [r EXCEPT !.pc = "marking", !.markIdx = 1, !.batch = r.unprocessedEvents]
    ELSE Finish(r, "fulfilled", "none")

\* faulty variant of afterLookups: the new events are collected with unshift,
\* so the batch has them latest-looked-up first
afterLookupsReversed(r) ==
    IF Len(r.unprocessedEvents) > 0
    THEN [r EXCEPT !.pc = "dispatch",
                   !.batch = [j \in 1..Len(r.unprocessedEvents) |->
                                r.unprocessedEvents[Len(r.unprocessedEvents) + 1 - j]]]
    ELSE Finish(r, "fulfilled", "none")

\* faulty variant of afterLookups: a run that found nothing new goes through
\* the fetched events once more
afterLookupsRescan(r) ==
    IF Len(r.unprocessedEvents) > 0
    THEN [r EXCEPT !.pc = "dispatch", !.batch = r.unprocessedEvents]
    ELSE IF r.reads <= Len(r.events)
         THEN [r EXCEPT !.pc = "lookup", !.idx = 1]
         ELSE Finish(r, "fulfilled", "none")

\* the lookup loop is over: nothing new ends the run, else the batch goes to
\* sendNotificationsBatch
afterLookups(r) ==
    IF Len(r.unprocessedEvents) > 0
    THEN [r EXCEPT !.pc = "dispatch", !.batch = r.unprocessedEvents]
    ELSE Finish(r, "fulfilled", "none")

\* faulty variant of sendToEndpointsBatch: the empty-batch return is missing
sendToEndpointsBatchAlways(eps, evs) ==
    [i \in EndpointIds |->
        IF \E k \in 1..Len(eps) : eps[k].id = i
        THEN promiseFor(eps[CHOOSE k \in 1..Len(eps) : eps[k].id = i])
        ELSE "none"]

\* sendToEndpointsBatch(endpoints, events) up to its await: nothing for an
\* empty batch, else one promise per endpoint handed in
sendToEndpointsBatch(eps, evs) ==
    IF Len(evs) = 0
    THEN NoSends
    ELSE [i \in EndpointIds |->
            IF \E k \in 1..Len(eps) : eps[k].id = i
            THEN promiseFor(eps[CHOOSE k \in 1..Len(eps) : eps[k].id = i])
            ELSE "none"]

\* the events of a run's batch when the send to some enabled endpoint failed
LostBy(r) ==
    IF \E i \in EndpointIds : r.sends[i] \in SendOutcomes \ {"ok"}
    THEN {r.batch[j].id : j \in 1..Len(r.batch)}
    ELSE {}

\* ------------------------------------------------------------ the steps

\* faulty variant of kvGet: a key is returned after its expiry too
kvGetNoExpiry(id) == PROCESSED_EVENTS[id]

\* PROCESSED_EVENTS.get(`event:${id}`): the value, or null when the key was
\* never written or has expired
kvGet(id) ==
    IF clock < expiration[id] THEN PROCESSED_EVENTS[id] ELSE Absent

\* const now = new Date(); const fiveMinutesAgo = ...; the request for the
\* window leaves
fetchingAt(r, now) ==
    [r EXCEPT !.pc = "fetching", !.since = now - Window, !.until = now,
              !.fetches = @ + 1]

\* the records of a set, latest first (order: 'desc')
RECURSIVE Descending(_)
Descending(S) ==
    IF S = {} THEN <<>>
    ELSE LET latest == CHOOSE x \in S : \A y \in S : y.occurred_at <= x.occurred_at
         IN  <<latest>> \o Descending(S \ {latest})

\* the records the events API holds for since <= occurred_at < until
inWindow(records, since, until) ==
    {x \in records : since <= x.occurred_at /\ x.occurred_at < until}

\* the cron trigger fires one Interval after the last: scheduled() calls
\* checkAndNotifySecurityEvents, which reads the time
scheduledFires ==
    /\ run["scheduled"].pc = "idle"
    /\ clock % MarkerLife < MaxPolls * Interval
    /\ clock' = clock + Interval
    /\ run' = [run EXCEPT !["scheduled"] = fetchingAt(run["scheduled"], clock')]
    /\ UNCHANGED <<storage, PROCESSED_EVENTS, lost, crashed, afterFailure, request, created, slack, feed, calls, expiration, posts, unsent, halfMarked>>

\* a day goes by in which every poll finds nothing new
dayPasses ==
    /\ \A t \in Tasks : run[t].pc = "idle"
    /\ clock < MaxDays * MarkerLife
    /\ clock' = clock + MarkerLife
    /\ UNCHANGED <<storage, PROCESSED_EVENTS, run, lost, crashed, afterFailure, request,
                   created, slack, feed, calls, expiration, posts, unsent, halfMarked>>

\* the events API answers the request with the records of the window asked
\* for, or with a failure
upstreamRespondsWindow(p) ==
    /\ run[p].pc = "fetching"
    /\ run[p].response = NoResponse
    /\ \E o \in FetchOutcomes :
        LET result == Descending(inWindow(feed, run[p].since, run[p].until))
        IN  run' = [run EXCEPT ![p].response =
                [outcome |-> o,
                 result |-> IF o \in {"network_error", "bad_body"} THEN <<>> ELSE result]]
    /\ UNCHANGED <<storage, PROCESSED_EVENTS, lost, crashed, afterFailure, request, created, slack, clock, feed, calls, expiration, posts, unsent, halfMarked>>

\* an entry point (scheduled, POST /api/check-events, checkSecurityEvents)
\* calls checkAndNotifySecurityEvents; the upstream request leaves
checkAndNotifySecurityEvents(p) ==
    /\ run[p].pc = "idle"
    /\ run' = [run EXCEPT ![p] = fetchingAt(run[p], clock)]
    /\ UNCHANGED <<storage, PROCESSED_EVENTS, lost, crashed, afterFailure, request, created, slack, clock, feed, calls, expiration, posts, unsent, halfMarked>>

\* the events API answers the request of fetchSecurityEvents with records of
\* the given kind: a result, an error status (with any body), a network error
\* or a body that is no JSON
upstreamRespondsFrom(p, records) ==
    /\ run[p].pc = "fetching"
    /\ run[p].response = NoResponse
    /\ \E o \in FetchOutcomes, result \in SeqsUpTo(records, MaxEvents) :
        /\ o \in {"network_error", "bad_body"} => result = <<>>
        /\ run' = [run EXCEPT ![p].response = [outcome |-> o, result |-> result]]
    /\ UNCHANGED <<storage, PROCESSED_EVENTS, lost, crashed, afterFailure, request, created, slack, clock, feed, calls, expiration, posts, unsent, halfMarked>>

upstreamResponds(p) == upstreamRespondsFrom(p, RawRecords)

\* the upstream request returns: fetchSecurityEvents throws or yields the
\* events, and the first marker lookup leaves
fetchReturns(p) ==
    /\ run[p].pc = "fetching"
    /\ run[p].response # NoResponse
    /\ LET o == run[p].response.outcome
           r == [run[p] EXCEPT !.upstream = o, !.response = NoResponse]
           evs == fetchSecurityEvents(run[p].response.result)
       IN  run' = [run EXCEPT ![p] =
                IF fetchThrows(o) THEN Throw(r, "fetch")
                ELSE IF Len(evs) = 0
                     THEN Finish([r EXCEPT !.events = evs], "fulfilled", "none")
                     ELSE [r EXCEPT !.events = evs, !.pc = "lookup", !.idx = 1]]
    /\ UNCHANGED <<storage, PROCESSED_EVENTS, lost, crashed, afterFailure, request, created, slack, clock, feed, calls, expiration, posts, unsent, halfMarked>>

\* PROCESSED_EVENTS.get returns for events[idx]; an unmarked event is pushed,
\* and after the last event the loop is over
markerLookupReturns(p) ==
    /\ run[p].pc = "lookup"
    /\ \E o \in StoreOutcomes :
        LET r == [run[p] EXCEPT !.reads = @ + 1]
            event == r.events[r.idx]
            processed == kvGet(event.id)
            new == isUnprocessed(processed)
            looked ==
                [r EXCEPT
                    !.unprocessedEvents = IF new THEN Append(@, event) ELSE @,
                    !.picked = IF new THEN Append(@, r.idx) ELSE @,
                    !.hits = IF Truthy(processed) THEN @ \cup {r.idx} ELSE @,
                    !.sawLost = IF event.id \in lost THEN @ \cup {r.idx} ELSE @,
                    !.sawCrashed = IF event.id \in crashed THEN @ \cup {r.idx} ELSE @]
        IN  run' = [run EXCEPT ![p] =
                IF o # "ok" THEN Throw(r, "kv_get")
                ELSE IF r.idx < Len(r.events)
                     THEN [looked EXCEPT !.idx = @ + 1]
                     ELSE afterLookups(looked)]
    /\ UNCHANGED <<storage, PROCESSED_EVENTS, lost, crashed, afterFailure, request, created, slack, clock, feed, calls, expiration, posts, unsent, halfMarked>>

\* sendNotificationsBatch(events): the registry is read, filtered to the
\* enabled endpoints, and every request leaves
sendNotificationsBatch(t) ==
    /\ run[t].pc = "dispatch"
    /\ LET eps == getEndpoints(storage)
           s == sendToEndpointsBatch(activeEndpoints(eps), run[t].batch)
           all == promiseAll({PromiseState(s[i]) : i \in EndpointIds})
           r == [run[t] EXCEPT !.endpoints = eps, !.sends = s,
                               !.requests = requestsWith(run[t], s),
                               !.logs = emailLogs(activeEndpoints(eps), run[t].batch),
                               !.body = webhookBody(activeEndpoints(eps), run[t].batch, clock)]
       IN  run' = [run EXCEPT ![t] =
                IF all = "pending" THEN [r EXCEPT !.pc = "sending"]
                ELSE dispatchSettled(t, r, all)]
    /\ UNCHANGED <<storage, PROCESSED_EVENTS, lost, crashed, afterFailure, request, created, slack, clock, feed, calls, expiration, posts, unsent, halfMarked>>

\* the record of endpoint i among the endpoints the dispatch read
endpointOf(r, i) ==
    r.endpoints[CHOOSE k \in 1..Len(r.endpoints) : r.endpoints[k].id = i]

\* the outcomes the request to an endpoint can have: without a url fetch
\* rejects at once
outcomesFor(ep) == IF Truthy(ep.url) THEN SendOutcomes ELSE {"network_error"}

\* console.error(`Failed to send batch to ... ${endpoint.name}:`, err) of the
\* .catch of endpoint i, run when its send rejects
consoleError(r, i, o) ==
    IF sendBatchSettles(o) = "rejected"
    THEN r.errors \cup {endpointOf(r, i).name}
    ELSE r.errors

\* the request to endpoint i returns with outcome o
sendReturns(t, i, o) ==
    /\ run[t].pc = "sending"
    /\ run[t].sends[i] = "pending"
    /\ o \in outcomesFor(endpointOf(run[t], i))
    /\ LET r == [run[t] EXCEPT !.sends[i] = o, !.errors = consoleError(run[t], i, o)]
           all == promiseAll({PromiseState(r.sends[j]) : j \in EndpointIds})
       IN  run' = [run EXCEPT ![t] =
                IF all = "pending" THEN r ELSE dispatchSettled(t, r, all)]
    /\ UNCHANGED <<storage, PROCESSED_EVENTS, lost, crashed, afterFailure, request, created, slack, clock, feed, calls, expiration, posts, unsent, halfMarked>>

\* no marking loop has failed since the last run that came after one
NoneHalfMarked == [failed |-> FALSE, before |-> {}, rest |-> {}]

\* the marking loop of frame r stops at the put for unprocessedEvents[markIdx]:
\* the ids the loop had marked, and the other ids of the batch
halfMarkedBy(r) ==
    LET before == {r.unprocessedEvents[j].id : j \in 1..(r.markIdx - 1)}
    IN  [failed |-> TRUE, before |-> before,
         rest |-> {r.unprocessedEvents[j].id :
                        j \in r.markIdx..Len(r.unprocessedEvents)} \ before]

\* faulty variant of kvPut: a put that reports a failure has stored the value
kvPutDespiteFailure(kv, id, value, o) == [kv EXCEPT ![id] = value]

\* PROCESSED_EVENTS.put(`event:${id}`, value, {expirationTtl}) with outcome o:
\* a put that fails stores nothing
kvPut(kv, id, value, o) ==
    IF o # "ok" THEN kv ELSE [kv EXCEPT ![id] = value]

\* the ids marked without a send, after the put for id returned with outcome o
\* in a run with frame r
unsentAfter(r, id, o) ==
    IF o # "ok" THEN unsent
    ELSE IF \A i \in EndpointIds : r.sends[i] = "none"
         THEN unsent \cup {id}
         ELSE unsent \ {id}

\* PROCESSED_EVENTS.put returns for unprocessedEvents[markIdx]
markerWriteReturns(p) ==
    /\ run[p].pc = "marking"
    /\ \E o \in StoreOutcomes :
        LET r == [run[p] EXCEPT !.writes = @ + 1]
            event == r.unprocessedEvents[r.markIdx]
            marked == [r EXCEPT !.written = @ \cup {r.picked[r.markIdx]}]
        IN  /\ PROCESSED_EVENTS' = kvPut(PROCESSED_EVENTS, event.id, Serialized(event), o)
            /\ expiration' = kvPut(expiration, event.id, clock + MarkerLife, o)
            /\ halfMarked' = IF o # "ok" THEN halfMarkedBy(r) ELSE halfMarked
            /\ crashed' = IF o # "ok" THEN crashed ELSE crashed \ {event.id}
            /\ unsent' = unsentAfter(r, event.id, o)
            /\ run' = [run EXCEPT ![p] =
                IF o # "ok" THEN Throw(r, "kv_put")
                ELSE IF r.markIdx < Len(r.unprocessedEvents)
                     THEN [marked EXCEPT !.markIdx = @ + 1]
                     ELSE Finish(marked, "fulfilled", "none")]
    /\ UNCHANGED <<storage, lost, afterFailure, request, created, slack, clock, feed, calls, posts>>

\* the entry point has answered and the invocation's frame is gone; what the
\* run leaves for later polls is kept in lost and afterFailure
entryReturns(t) ==
    /\ run[t].pc = "done"
    /\ run' = [run EXCEPT ![t] = Frame]
    /\ lost' = IF t \in Procs THEN lost \cup LostBy(run[t]) ELSE lost
    /\ afterFailure' = IF t \in Procs THEN fetchThrows(run[t].upstream)
                                     ELSE afterFailure
    /\ halfMarked' = IF t \in Procs /\ run[t].caught # "kv_put"
                     THEN NoneHalfMarked ELSE halfMarked
    /\ UNCHANGED <<storage, PROCESSED_EVENTS, crashed, request, created, slack, clock, feed, calls, expiration, posts, unsent>>

\* the events a run found new and has not reached a marker write of: all of
\* them until the dispatch has completed, then those from markIdx on whose id
\* no earlier write of the loop has marked
Unmarked(r) ==
    IF r.joined
    THEN {r.events[r.picked[j]].id : j \in r.markIdx..Len(r.picked)} \
            {r.events[r.picked[j]].id : j \in 1..(r.markIdx - 1)}
    ELSE {r.events[r.picked[j]].id : j \in 1..Len(r.picked)}

\* the invocation stops at one of its awaits after the fetch and never
\* resumes (the object is evicted or the runtime ends the request): its
\* locals are gone, what it wrote stays
crash(p) ==
    /\ run[p].pc \in {"lookup", "dispatch", "sending", "marking"}
    /\ run' = [run EXCEPT ![p] = Frame]
    /\ crashed' = crashed \cup Unmarked(run[p])
    /\ UNCHANGED <<storage, PROCESSED_EVENTS, lost, afterFailure, request, created, slack, clock, feed, calls, expiration, posts, unsent, halfMarked>>

\* ------------------------- the second definition (index.ts 489-790)

\* sendNotifications(event) of the second definition: one sendToEndpoint
\* promise per enabled endpoint, each with its .catch
sendToEndpoints(eps) ==
    [i \in EndpointIds |->
        IF \E k \in 1..Len(eps) : eps[k].id = i
        THEN promiseFor(eps[CHOOSE k \in 1..Len(eps) : eps[k].id = i])
        ELSE "none"]

\* the loop of the second checkAndNotifySecurityEvents moves to the next
\* event, or the run ends after the last
nextEvent(r) ==
    IF r.idx < Len(r.events)
    THEN [r EXCEPT !.pc = "lookup", !.idx = @ + 1]
    ELSE Finish(r, "fulfilled", "none")

\* PROCESSED_EVENTS.get returns for events[idx]: an unmarked event goes to
\* sendNotifications at once
markerLookupReturnsPerEvent(p) ==
    /\ run[p].pc = "lookup"
    /\ \E o \in StoreOutcomes :
        LET r == run[p]
            event == r.events[r.idx]
            processed == kvGet(event.id)
        IN  run' = [run EXCEPT ![p] =
                IF o # "ok" THEN Throw(r, "kv_get")
                ELSE IF isUnprocessed(processed)
                     THEN [r EXCEPT !.pc = "dispatch", !.batch = <<event>>,
                                    !.unprocessedEvents = Append(@, event),
                                    !.picked = Append(@, r.idx)]
                     ELSE nextEvent([r EXCEPT !.hits = @ \cup {r.idx}])]
    /\ UNCHANGED <<storage, PROCESSED_EVENTS, lost, crashed, afterFailure, request, created, slack, clock, feed, calls, expiration, posts, unsent, halfMarked>>

\* the promises of sendNotifications(event) have settled: the marker write of
\* the event leaves
sentPerEvent(r) == [r EXCEPT !.pc = "marking", !.joined = TRUE]

\* sendNotifications(event): the registry is read and a request leaves for
\* every enabled webhook and slack endpoint
sendNotificationsPerEvent(p) ==
    /\ run[p].pc = "dispatch"
    /\ LET eps == getEndpoints(storage)
           s == sendToEndpoints(activeEndpoints(eps))
           r == [run[p] EXCEPT !.endpoints = eps, !.sends = s,
                               !.requests = requestsWith(run[p], s)]
       IN  run' = [run EXCEPT ![p] =
                IF \E i \in EndpointIds : s[i] = "pending"
                THEN [r EXCEPT !.pc = "sending"] ELSE sentPerEvent(r)]
    /\ UNCHANGED <<storage, PROCESSED_EVENTS, lost, crashed, afterFailure, request, created, slack, clock, feed, calls, expiration, posts, unsent, halfMarked>>

\* the request of sendWebhook / sendSlack to endpoint i returns
sendReturnsPerEvent(p, i, o) ==
    /\ run[p].pc = "sending"
    /\ run[p].sends[i] = "pending"
    /\ LET r == [run[p] EXCEPT !.sends[i] = o, !.errors = consoleError(run[p], i, o)]
       IN  run' = [run EXCEPT ![p] =
                IF \E j \in EndpointIds : r.sends[j] = "pending"
                THEN r ELSE sentPerEvent(r)]
    /\ UNCHANGED <<storage, PROCESSED_EVENTS, lost, crashed, afterFailure, request, created, slack, clock, feed, calls, expiration, posts, unsent, halfMarked>>

\* PROCESSED_EVENTS.put returns for events[idx], and the loop goes on
markerWriteReturnsPerEvent(p) ==
    /\ run[p].pc = "marking"
    /\ \E o \in StoreOutcomes :
        LET r == run[p]
            event == r.events[r.idx]
        IN  /\ PROCESSED_EVENTS' =
                IF o # "ok" THEN PROCESSED_EVENTS
                ELSE [PROCESSED_EVENTS EXCEPT ![event.id] = Serialized(event)]
            /\ expiration' =
                IF o # "ok" THEN expiration
                ELSE [expiration EXCEPT ![event.id] = clock + MarkerLife]
            /\ unsent' = unsentAfter(r, event.id, o)
            /\ run' = [run EXCEPT ![p] =
                IF o # "ok" THEN Throw(r, "kv_put")
                ELSE nextEvent([r EXCEPT !.written = @ \cup {r.idx}])]
    /\ UNCHANGED <<storage, lost, crashed, afterFailure, request, created, slack, clock, feed, calls, posts, halfMarked>>

\* ------------------------------------------------ registry operations

\* registrations that lack what their type needs: a webhook without url
MalformedRecords == {[NotificationEndpoint("ep1", TRUE) EXCEPT !.url = Absent]}

\* the records a caller can hand to addEndpoint
EndpointRecords ==
    {NotificationEndpoint(i, b) : i \in EndpointIds, b \in BOOLEAN} \cup MalformedRecords

\* faulty variant of storagePut: a key that is present is not overwritten
storagePutIfAbsent(reg, endpoint) ==
    IF endpoint.id \in DOMAIN reg THEN reg
    ELSE [i \in DOMAIN reg \cup {endpoint.id} |->
             IF i = endpoint.id THEN endpoint ELSE reg[i]]

\* ctx.storage.put(`endpoint:${endpoint.id}`, endpoint)
storagePut(reg, endpoint) ==
    [i \in DOMAIN reg \cup {endpoint.id} |->
        IF i = endpoint.id THEN endpoint ELSE reg[i]]

\* faulty variant of storageDelete: the key lacks the endpoint: prefix
storageDeleteUnprefixed(reg, id) == reg

\* ctx.storage.delete(`endpoint:${id}`)
storageDelete(reg, id) == [i \in DOMAIN reg \ {id} |-> reg[i]]

\* faulty variant of toggleEndpointIn: the if (endpoint) guard is missing, and
\* the assignment to a property of undefined throws
toggleEndpointUnguarded(reg, id, enabled) ==
    IF id \in DOMAIN reg
    THEN [storage |-> storagePut(reg, [reg[id] EXCEPT !.enabled = enabled]),
          settled |-> "fulfilled"]
    ELSE [storage |-> reg, settled |-> "rejected"]

\* faulty variant of toggleEndpointIn: the flag is inverted, not set
toggleEndpointFlips(reg, id, enabled) ==
    IF id \in DOMAIN reg
    THEN [storage |-> storagePut(reg, [reg[id] EXCEPT !.enabled = ~@]),
          settled |-> "fulfilled"]
    ELSE [storage |-> reg, settled |-> "fulfilled"]

\* toggleEndpoint on a registry: storage.get, then endpoint.enabled = enabled
\* and storage.put if the record exists; what is stored and how it settles
toggleEndpointIn(reg, id, enabled) ==
    IF id \in DOMAIN reg
    THEN [storage |-> storagePut(reg, [reg[id] EXCEPT !.enabled = enabled]),
          settled |-> "fulfilled"]
    ELSE [storage |-> reg, settled |-> "fulfilled"]

\* addEndpoint(endpoint)
addEndpoint(endpoint) ==
    /\ storage' = storagePut(storage, endpoint)
    /\ UNCHANGED <<PROCESSED_EVENTS, run, lost, crashed, afterFailure, request, created, slack, clock, feed, calls, expiration, posts, unsent, halfMarked>>

\* removeEndpoint(id)
removeEndpoint(id) ==
    /\ storage' = storageDelete(storage, id)
    /\ UNCHANGED <<PROCESSED_EVENTS, run, lost, crashed, afterFailure, request, created, slack, clock, feed, calls, expiration, posts, unsent, halfMarked>>

\* toggleEndpoint(id, enabled)
toggleEndpoint(id, enabled) ==
    /\ storage' = toggleEndpointIn(storage, id, enabled).storage
    /\ UNCHANGED <<PROCESSED_EVENTS, run, lost, crashed, afterFailure, request, created, slack, clock, feed, calls, expiration, posts, unsent, halfMarked>>

\* ------------------------------- registry calls cut at their awaits

\* no toggleEndpoint and no removeEndpoint call has been delivered
NoCalls ==
    [toggle |-> [pc |-> "idle", id |-> Absent, enabled |-> FALSE, endpoint |-> <<>>],
     remove |-> [pc |-> "idle", id |-> Absent],
     before |-> <<>>]

\* faulty variant of inputGateOpen: requests are delivered while a storage
\* operation is in flight
inputGateAlwaysOpen(c) == TRUE

\* the input gate of the object (class NotificationManager extends
\* DurableObject): while a ctx.storage operation of a call is in flight, no
\* other request is delivered to the object
inputGateOpen(c) ==
    /\ c.toggle.pc \notin {"get", "put"}
    /\ c.remove.pc # "delete"

\* what the race started from
startedFrom(c) == IF c.toggle.pc = "idle" /\ c.remove.pc = "idle"
                  THEN storage ELSE c.before

\* toggleEndpoint(id, enabled) is delivered: storage.get(key) leaves
toggleEndpointDelivered(id, enabled) ==
    /\ calls.toggle.pc = "idle"
    /\ inputGateOpen(calls)
    /\ calls' = [calls EXCEPT !.toggle = [pc |-> "get", id |-> id, enabled |-> enabled,
                                          endpoint |-> <<>>],
                              !.before = startedFrom(calls)]
    /\ UNCHANGED <<storage, PROCESSED_EVENTS, run, lost, crashed, afterFailure, request,
                   created, slack, clock, feed, expiration, posts, unsent, halfMarked>>

\* storage.get returns: if (endpoint) { endpoint.enabled = enabled; and
\* storage.put(key, endpoint) leaves }, else the call returns
toggleGetReturns ==
    /\ calls.toggle.pc = "get"
    /\ LET t == calls.toggle
       IN  calls' = [calls EXCEPT !.toggle =
                IF t.id \in DOMAIN storage
                THEN [t EXCEPT !.pc = "put",
                               !.endpoint = [storage[t.id] EXCEPT !.enabled = t.enabled]]
                ELSE [t EXCEPT !.pc = "done"]]
    /\ UNCHANGED <<storage, PROCESSED_EVENTS, run, lost, crashed, afterFailure, request,
                   created, slack, clock, feed, expiration, posts, unsent, halfMarked>>

\* storage.put(key, endpoint) returns, and with it toggleEndpoint
togglePutReturns ==
    /\ calls.toggle.pc = "put"
    /\ storage' = storagePut(storage, calls.toggle.endpoint)
    /\ calls' = [calls EXCEPT !.toggle.pc = "done"]
    /\ UNCHANGED <<PROCESSED_EVENTS, run, lost, crashed, afterFailure, request,
                   created, slack, clock, feed, expiration, posts, unsent, halfMarked>>

\* removeEndpoint(id) is delivered: storage.delete(key) leaves
removeEndpointDelivered(id) ==
    /\ calls.remove.pc = "idle"
    /\ inputGateOpen(calls)
    /\ calls' = [calls EXCEPT !.remove = [pc |-> "delete", id |-> id],
                              !.before = startedFrom(calls)]
    /\ UNCHANGED <<storage, PROCESSED_EVENTS, run, lost, crashed, afterFailure, request,
                   created, slack, clock, feed, expiration, posts, unsent, halfMarked>>

\* storage.delete(key) returns, and with it removeEndpoint
removeDeleteReturns ==
    /\ calls.remove.pc = "delete"
    /\ storage' = storageDelete(storage, calls.remove.id)
    /\ calls' = [calls EXCEPT !.remove.pc = "done"]
    /\ UNCHANGED <<PROCESSED_EVENTS, run, lost, crashed, afterFailure, request,
                   created, slack, clock, feed, expiration, posts, unsent, halfMarked>>

\* ------------------------------------------------- management requests

\* the ids and names of the registrations the management requests use
RegistryIds == {"ep1", "ep2"}

Names == {"primary", "backup"}

\* the records a caller hands to addEndpoint or posts; nothing checks them, so
\* they include a webhook without url and a slack record with an email too
RegistryRecords ==
    {[NotificationEndpoint(i, b) EXCEPT !.name = n] :
        i \in RegistryIds, b \in BOOLEAN, n \in Names}
    \cup {[NotificationEndpoint("ep1", b) EXCEPT !.url = Absent] : b \in BOOLEAN}
    \cup {[NotificationEndpoint("ep2", b) EXCEPT !.email = "sec@example.com"] :
            b \in BOOLEAN}

\* faulty variant of newEndpoint: the id the caller sent is kept
newEndpointKeepsId(body, uuid, now) == [body EXCEPT !.createdAt = now]

\* POST /api/endpoints and the addEndpoint RPC: the id and createdAt the
\* caller sent, if any, are replaced by crypto.randomUUID() and the time
newEndpoint(body, uuid, now) == [body EXCEPT !.id = uuid, !.createdAt = now]

\* what the history keeps of the stored ids when endpoint is added
createdPut(endpoint) ==
    [i \in DOMAIN created \cup {endpoint.id} |->
        IF i = endpoint.id THEN [endpoint |-> endpoint, toggles |-> <<>>]
        ELSE created[i]]

\* addEndpoint(endpoint) is called on the object
addEndpointCalled(endpoint) ==
    /\ storage' = storagePut(storage, endpoint)
    /\ request' = [op |-> "addEndpoint", endpoint |-> endpoint,
                   before |-> storage, settled |-> "fulfilled"]
    /\ created' = createdPut(endpoint)
    /\ UNCHANGED <<PROCESSED_EVENTS, run, lost, crashed, afterFailure, slack, clock, feed, calls, expiration, posts, unsent, halfMarked>>

\* POST /api/endpoints with a body (or the addEndpoint RPC): the endpoint
\* gets a fresh id and the time, is added and is returned
postEndpoints(body, uuid) ==
    /\ uuid \notin DOMAIN storage
    /\ LET endpoint == newEndpoint(body, uuid, "now")
       IN  /\ storage' = storagePut(storage, endpoint)
           /\ request' = [op |-> "POST /api/endpoints", body |-> body,
                          endpoint |-> endpoint, before |-> storage,
                          settled |-> "fulfilled"]
           /\ created' = createdPut(endpoint)
    /\ UNCHANGED <<PROCESSED_EVENTS, run, lost, crashed, afterFailure, slack, clock, feed, calls, expiration, posts, unsent, halfMarked>>

\* no POST /api/endpoints request has been received
NoPosts == [pending |-> {}, issued |-> {}, before |-> <<>>, done |-> 0]

\* POST /api/endpoints is received with a body: request.json(), then the
\* endpoint gets crypto.randomUUID(), which repeats no id, and the time, and
\* the addEndpoint call leaves for the object
postReceived(body, uuid) ==
    /\ uuid \notin DOMAIN storage \cup posts.issued
    /\ posts' = [posts EXCEPT !.pending = @ \cup {newEndpoint(body, uuid, "now")},
                              !.issued = @ \cup {uuid}]
    /\ UNCHANGED <<storage, PROCESSED_EVENTS, run, lost, crashed, afterFailure, request,
                   created, slack, clock, feed, calls, expiration, unsent, halfMarked>>

\* the addEndpoint call of a POST /api/endpoints request reaches the object
\* and returns, and the request is answered with the endpoint
postStored(endpoint) ==
    /\ endpoint \in posts.pending
    /\ storage' = storagePut(storage, endpoint)
    /\ posts' = [posts EXCEPT !.pending = @ \ {endpoint}, !.done = @ + 1]
    /\ request' = [op |-> "POST /api/endpoints", endpoint |-> endpoint,
                   before |-> storage, settled |-> "fulfilled"]
    /\ created' = createdPut(endpoint)
    /\ UNCHANGED <<PROCESSED_EVENTS, run, lost, crashed, afterFailure, slack, clock,
                   feed, calls, expiration, unsent, halfMarked>>

\* what JSON.parse('{}') gives where a body was expected
EmptyBody ==
    [id |-> Absent, name |-> Absent, type |-> Absent, url |-> Absent,
     email |-> Absent, enabled |-> FALSE, createdAt |-> Absent]

\* the bodies of a request: JSON text of a value, or text that is no JSON
RawBodies(values) ==
    {[valid |-> TRUE, value |-> v] : v \in values} \cup
    {[valid |-> FALSE, value |-> EmptyBody]}

\* faulty variant of requestJson: a body that does not parse counts as {}
requestJsonLenient(raw) == [settled |-> "fulfilled", value |-> raw.value]

\* await request.json(): the parsed body, or a rejection when the body is
\* not valid JSON
requestJson(raw) ==
    IF raw.valid THEN [settled |-> "fulfilled", value |-> raw.value]
    ELSE [settled |-> "rejected", value |-> EmptyBody]

\* the handler throws at request.json(): the request ends in an error and
\* the object is not called
requestFails(route, raw) ==
    /\ request' = [op |-> "request.json()", route |-> route, raw |-> raw,
                   before |-> storage, settled |-> "rejected"]
    /\ UNCHANGED <<storage, created>>

\* a POST /api/endpoints request arrives with a raw body
postEndpointsRequest(raw, uuid) ==
    /\ uuid \notin DOMAIN storage
    /\ LET parsed == requestJson(raw)
           endpoint == newEndpoint(parsed.value, uuid, "now")
       IN  IF parsed.settled = "rejected"
           THEN requestFails("POST /api/endpoints", raw)
           ELSE /\ storage' = storagePut(storage, endpoint)
                /\ request' = [op |-> "POST /api/endpoints", body |-> parsed.value,
                               raw |-> raw, endpoint |-> endpoint,
                               before |-> storage, settled |-> "fulfilled"]
                /\ created' = createdPut(endpoint)
    /\ UNCHANGED <<PROCESSED_EVENTS, run, lost, crashed, afterFailure, slack, clock,
                   feed, calls, expiration, posts, unsent, halfMarked>>

\* a POST /api/endpoints/<id>/toggle request arrives with a raw body
postToggleRequest(id, raw) ==
    /\ LET parsed == requestJson(raw)
           result == toggleEndpointIn(storage, id, parsed.value.enabled)
       IN  IF parsed.settled = "rejected"
           THEN requestFails("POST /api/endpoints/{id}/toggle", raw)
           ELSE /\ storage' = result.storage
                /\ request' = [op |-> "toggleEndpoint", id |-> id,
                               enabled |-> parsed.value.enabled, raw |-> raw,
                               before |-> storage, settled |-> result.settled]
                /\ created' = IF id \in DOMAIN created
                              THEN [created EXCEPT ![id].toggles = <<parsed.value.enabled>>]
                              ELSE created
    /\ UNCHANGED <<PROCESSED_EVENTS, run, lost, crashed, afterFailure, slack, clock,
                   feed, calls, expiration, posts, unsent, halfMarked>>

\* removeEndpoint(id) is called (DELETE /api/endpoints/<id>, or the RPC)
removeEndpointCalled(id) ==
    /\ storage' = storageDelete(storage, id)
    /\ request' = [op |-> "removeEndpoint", id |-> id, before |-> storage,
                   settled |-> "fulfilled"]
    /\ created' = [i \in DOMAIN created \ {id} |-> created[i]]
    /\ UNCHANGED <<PROCESSED_EVENTS, run, lost, crashed, afterFailure, slack, clock, feed, calls, expiration, posts, unsent, halfMarked>>

\* toggleEndpoint(id, enabled) is called (POST /api/endpoints/<id>/toggle, or
\* the RPC)
toggleEndpointCalled(id, enabled) ==
    /\ LET result == toggleEndpointIn(storage, id, enabled)
       IN  /\ storage' = result.storage
           /\ request' = [op |-> "toggleEndpoint", id |-> id, enabled |-> enabled,
                          before |-> storage, settled |-> result.settled]
    /\ created' = IF id \in DOMAIN created
                  THEN [created EXCEPT ![id].toggles = <<enabled>>]
                  ELSE created
    /\ UNCHANGED <<PROCESSED_EVENTS, run, lost, crashed, afterFailure, slack, clock, feed, calls, expiration, posts, unsent, halfMarked>>

\* getEndpoints() is called (GET /api/endpoints, or getEndpointsList)
getEndpointsCalled ==
    /\ request' = [op |-> "getEndpoints", before |-> storage,
                   endpoints |-> getEndpoints(storage), settled |-> "fulfilled"]
    /\ UNCHANGED <<storage, PROCESSED_EVENTS, run, lost, crashed, afterFailure,
                   created, slack, clock, feed, calls, expiration, posts, unsent, halfMarked>>

\* ------------------------------------------------------ direct dispatch

\* the events a caller hands to the dispatcher
DispatchEvents == {SecurityEvent(r) : r \in {x \in RawRecords : x.action \in allowedActions}}

\* a caller invokes sendNotificationsBatch(events) on the object
sendNotificationsBatchCalled(c, evs) ==
    /\ run[c].pc = "idle"
    /\ run' = [run EXCEPT ![c] = [Frame EXCEPT !.pc = "dispatch", !.batch = evs,
                                                !.called = "sendNotificationsBatch"]]
    /\ UNCHANGED <<storage, PROCESSED_EVENTS, lost, crashed, afterFailure, request, created, slack, clock, feed, calls, expiration, posts, unsent, halfMarked>>

\* sendNotifications(event): the same dispatch with the batch [event]
sendNotifications(c, event) ==
    /\ run[c].pc = "idle"
    /\ run' = [run EXCEPT ![c] = [Frame EXCEPT !.pc = "dispatch", !.batch = <<event>>,
                                                !.called = "sendNotifications"]]
    /\ UNCHANGED <<storage, PROCESSED_EVENTS, lost, crashed, afterFailure, request, created, slack, clock, feed, calls, expiration, posts, unsent, halfMarked>>

\* ------------------------------------------------- chat-webhook message

\* the events rendered for a chat webhook, with the fields the message shows
SlackEvents ==
    { [id |-> "r1", timestamp |-> "2024-05-01T10:00:00Z", action |-> "block",
       clientIP |-> "1.2.3.4", country |-> "US", host |-> "example.com",
       uri |-> "/login", ruleName |-> "SQLi"],
      [id |-> "r2", timestamp |-> "not-a-date", action |-> "challenge",
       clientIP |-> "5.6.7.8", country |-> "JP", host |-> "example.org",
       uri |-> "/admin", ruleName |-> "Unknown"] }

\* action.toUpperCase()
toUpperCase(action) ==
    CASE action = "block" -> "BLOCK"
      [] action = "challenge" -> "CHALLENGE"
      [] action = "jschallenge" -> "JSCHALLENGE"
      [] OTHER -> action

\* new Date(timestamp).toLocaleString()
toLocaleString(timestamp) ==
    IF timestamp = "2024-05-01T10:00:00Z" THEN "5/1/2024, 10:00:00 AM"
    ELSE "Invalid Date"

\* events.reduce(...): the count of each action, keyed in order of first
\* occurrence (the order Object.entries walks)
RECURSIVE eventsSummary(_)
eventsSummary(evs) ==
    IF Len(evs) = 0 THEN <<>>
    ELSE LET acc == eventsSummary(SubSeq(evs, 1, Len(evs) - 1))
             action == evs[Len(evs)].action
         IN  IF \E k \in 1..Len(acc) : acc[k].action = action
             THEN [k \in 1..Len(acc) |->
                     IF acc[k].action = action
                     THEN [acc[k] EXCEPT !.count = @ + 1] ELSE acc[k]]
             ELSE Append(acc, [action |-> action, count |-> 1])

\* the divider and the section pushed for displayEvents[index - 1]
detailBlocks(event, index) ==
    << [type |-> "divider"],
       [type |-> "section", index |-> index, action |-> event.action,
        clientIP |-> event.clientIP, country |-> event.country,
        host |-> event.host, uri |-> event.uri, rule |-> event.ruleName,
        time |-> toLocaleString(event.timestamp)] >>

RECURSIVE detailsOf(_, _)
detailsOf(shown, n) ==
    IF n = 0 THEN <<>>
    ELSE detailsOf(shown, n - 1) \o detailBlocks(shown[n], n)

\* faulty variant of displayEvents: the last DetailLimit events are taken
displayEventsLast(evs) ==
    SubSeq(evs, IF Len(evs) < DetailLimit THEN 1 ELSE Len(evs) - DetailLimit + 1,
           Len(evs))

\* const displayEvents = events.slice(0, 5)
displayEvents(evs) ==
    SubSeq(evs, 1, IF Len(evs) < DetailLimit THEN Len(evs) ELSE DetailLimit)

\* faulty variant of sendSlackBatch: the summary counts the displayed events
\* only
sendSlackBatchDisplayed(evs) ==
    LET shown == displayEvents(evs)
        summary == eventsSummary(shown)
        summaryText == [k \in 1..Len(summary) |->
                          [action |-> toUpperCase(summary[k].action),
                           count |-> summary[k].count]]
        head == << [type |-> "header", count |-> Len(evs)],
                   [type |-> "section", summary |-> summaryText,
                    from |-> toLocaleString(evs[1].timestamp),
                    to |-> toLocaleString(evs[Len(evs)].timestamp)] >>
        more == IF Len(evs) > DetailLimit
                THEN << [type |-> "context", more |-> Len(evs) - DetailLimit] >>
                ELSE <<>>
    IN  [text |-> Len(evs),
         blocks |-> head \o detailsOf(shown, Len(shown)) \o more]

\* the message sendSlackBatch posts for a non-empty batch
sendSlackBatch(evs) ==
    LET summary == eventsSummary(evs)
        summaryText == [k \in 1..Len(summary) |->
                          [action |-> toUpperCase(summary[k].action),
                           count |-> summary[k].count]]
        head == << [type |-> "header", count |-> Len(evs)],
                   [type |-> "section", summary |-> summaryText,
                    from |-> toLocaleString(evs[1].timestamp),
                    to |-> toLocaleString(evs[Len(evs)].timestamp)] >>
        shown == displayEvents(evs)
        more == IF Len(evs) > DetailLimit
                THEN << [type |-> "context", more |-> Len(evs) - DetailLimit] >>
                ELSE <<>>
    IN  [text |-> Len(evs),
         blocks |-> head \o detailsOf(shown, Len(shown)) \o more]

\* sendSlackBatch is called with a batch and builds its message
sendSlackBatchCalled ==
    /\ slack.message = <<>>
    /\ slack' = [slack EXCEPT !.message = sendSlackBatch(slack.events)]
    /\ UNCHANGED <<storage, PROCESSED_EVENTS, run, lost, crashed, afterFailure, request, created, clock, feed, calls, expiration, posts, unsent, halfMarked>>

\* ------------------------------------------------------- specification

MarkerValues == {Absent} \cup {Serialized(SecurityEvent(r)) : r \in RawRecords}

TypeOK ==
    /\ storage \in Registries
    /\ PROCESSED_EVENTS \in [EventIds -> MarkerValues]
    /\ \A t \in Tasks :
        /\ run[t].pc \in {"idle", "fetching", "lookup", "dispatch", "sending",
                          "marking", "done"}
        /\ run[t].reply \in {"none", "success", "error"}
    /\ lost \subseteq EventIds
    /\ crashed \subseteq EventIds
    /\ afterFailure \in BOOLEAN

\* no management request has been handled
NoRequest == [op |-> "none"]

Idle ==
    /\ PROCESSED_EVENTS = [e \in EventIds |-> Absent]
    /\ run = [t \in Tasks |-> Frame]
    /\ lost = {}
    /\ crashed = {}
    /\ expiration = [e \in EventIds |-> 0]
    /\ request = NoRequest
    /\ created = <<>>
    /\ afterFailure = FALSE

NoSlack == [events |-> <<>>, message |-> <<>>]

\* time is not followed
Timeless ==
    /\ clock = 0
    /\ feed = {}
    /\ calls = NoCalls
    /\ posts = NoPosts
    /\ unsent = {}
    /\ halfMarked = NoneHalfMarked

\* no invocation is in progress
Quiet == \A t \in Tasks : run[t].pc = "idle"

\* the pipeline, one invocation at a time (either trigger), over a registry
\* the management API has built
Init ==
    /\ storage \in Registries
    /\ Idle
    /\ Timeless
    /\ slack = NoSlack

Next ==
    \/ \E p \in Procs : Quiet /\ checkAndNotifySecurityEvents(p)
    \/ \E p \in Procs : upstreamResponds(p)
    \/ \E p \in Procs : fetchReturns(p)
    \/ \E p \in Procs : markerLookupReturns(p)
    \/ \E p \in Procs : sendNotificationsBatch(p)
    \/ \E p \in Procs, i \in EndpointIds, o \in SendOutcomes : sendReturns(p, i, o)
    \/ \E p \in Procs : markerWriteReturns(p)
    \/ \E p \in Procs : entryReturns(p)

Spec == Init /\ [][Next]_vars

\* the pipeline when an invocation may stop at any await after the fetch
NextCrash ==
    \/ Next
    \/ \E p \in Procs : crash(p)

SpecCrash == Init /\ [][NextCrash]_vars

\* the dispatcher called directly, while the management API changes the
\* registry
InitDispatch ==
    /\ storage \in Registries
    /\ Idle
    /\ Timeless
    /\ slack = NoSlack

NextDispatch ==
    \/ \E c \in Callers, evs \in SeqsUpTo(DispatchEvents, MaxBatch) :
            sendNotificationsBatchCalled(c, evs)
    \/ \E c \in Callers, event \in DispatchEvents : sendNotifications(c, event)
    \/ \E c \in Callers : sendNotificationsBatch(c)
    \/ \E c \in Callers, i \in EndpointIds, o \in SendOutcomes : sendReturns(c, i, o)
    \/ \E c \in Callers : entryReturns(c)
    \/ \E endpoint \in EndpointRecords : addEndpoint(endpoint)
    \/ \E id \in EndpointIds : removeEndpoint(id)
    \/ \E id \in EndpointIds, enabled \in BOOLEAN : toggleEndpoint(id, enabled)

SpecDispatch == InitDispatch /\ [][NextDispatch]_vars

\* one trigger polling an upstream that answers with records of any kind,
\* over a registry of one enabled webhook endpoint
InitFetch ==
    /\ storage = [i \in {"ep1"} |-> NotificationEndpoint(i, TRUE)]
    /\ Idle
    /\ Timeless
    /\ slack = NoSlack

NextFetch ==
    \/ Quiet /\ checkAndNotifySecurityEvents("scheduled")
    \/ upstreamRespondsFrom("scheduled", AnyRawRecords)
    \/ fetchReturns("scheduled")
    \/ markerLookupReturns("scheduled")
    \/ sendNotificationsBatch("scheduled")
    \/ \E o \in SendOutcomes : sendReturns("scheduled", "ep1", o)
    \/ markerWriteReturns("scheduled")
    \/ entryReturns("scheduled")

SpecFetch == InitFetch /\ [][NextFetch]_vars

\* the pipeline of the second definition: one trigger, over a registry of an
\* enabled webhook and an enabled slack endpoint
InitPerEvent ==
    /\ storage = [i \in {"ep1", "ep2"} |-> NotificationEndpoint(i, TRUE)]
    /\ Idle
    /\ Timeless
    /\ slack = NoSlack

NextPerEvent ==
    \/ Quiet /\ checkAndNotifySecurityEvents("scheduled")
    \/ upstreamResponds("scheduled")
    \/ fetchReturns("scheduled")
    \/ markerLookupReturnsPerEvent("scheduled")
    \/ sendNotificationsPerEvent("scheduled")
    \/ \E i \in EndpointIds, o \in SendOutcomes : sendReturnsPerEvent("scheduled", i, o)
    \/ markerWriteReturnsPerEvent("scheduled")
    \/ entryReturns("scheduled")

SpecPerEvent == InitPerEvent /\ [][NextPerEvent]_vars

\* the scheduled trigger and a manual trigger whose invocations interleave at
\* their awaits, over a registry of one enabled webhook endpoint; the upstream
\* answers both with records of the same window
Overlapping == {"scheduled", "manual"}

OverlapRecords == {r \in RawRecords : r.ray_id = "r1"}

InitOverlap ==
    /\ storage = [i \in {"ep1"} |-> NotificationEndpoint(i, TRUE)]
    /\ Idle
    /\ Timeless
    /\ slack = NoSlack

NextOverlap ==
    \/ \E p \in Overlapping : checkAndNotifySecurityEvents(p)
    \/ \E p \in Overlapping : upstreamRespondsFrom(p, OverlapRecords)
    \/ \E p \in Overlapping : fetchReturns(p)
    \/ \E p \in Overlapping : markerLookupReturns(p)
    \/ \E p \in Overlapping : sendNotificationsBatch(p)
    \/ \E p \in Overlapping, o \in SendOutcomes : sendReturns(p, "ep1", o)
    \/ \E p \in Overlapping : markerWriteReturns(p)
    \/ \E p \in Overlapping : entryReturns(p)

SpecOverlap == InitOverlap /\ [][NextOverlap]_vars

\* the scheduled trigger alone, firing every Interval minutes from minute 0,
\* over a registry of one enabled webhook endpoint and an upstream that holds
\* some of the records
InitWindow ==
    /\ storage = [i \in {"ep1"} |-> NotificationEndpoint(i, TRUE)]
    /\ Idle
    /\ slack = NoSlack
    /\ clock = 0
    /\ feed \in SUBSET WindowRecords
    /\ calls = NoCalls
    /\ posts = NoPosts
    /\ unsent = {}
    /\ halfMarked = NoneHalfMarked

NextWindow ==
    \/ scheduledFires
    \/ upstreamRespondsWindow("scheduled")
    \/ fetchReturns("scheduled")
    \/ markerLookupReturns("scheduled")
    \/ sendNotificationsBatch("scheduled")
    \/ \E o \in SendOutcomes : sendReturns("scheduled", "ep1", o)
    \/ markerWriteReturns("scheduled")
    \/ entryReturns("scheduled")

SpecWindow == InitWindow /\ [][NextWindow]_vars

\* one toggleEndpoint call and one removeEndpoint call, delivered to the
\* object in either order, over any registry
InitRace ==
    /\ storage \in Registries
    /\ Idle
    /\ Timeless
    /\ slack = NoSlack

NextRace ==
    \/ \E id \in EndpointIds, enabled \in BOOLEAN : toggleEndpointDelivered(id, enabled)
    \/ toggleGetReturns
    \/ togglePutReturns
    \/ \E id \in EndpointIds : removeEndpointDelivered(id)
    \/ removeDeleteReturns

SpecRace == InitRace /\ [][NextRace]_vars

\* the scheduled trigger over days, with an upstream whose records share an
\* id within a day and across days
ExpiryRecords ==
    { [ray_id |-> "r1", action |-> "block", rule_message |-> "SQLi", occurred_at |-> t] :
        t \in {3, 7, MarkerLife + 7} }
    \cup { [ray_id |-> "r2", action |-> "challenge", rule_message |-> Absent,
            occurred_at |-> MarkerLife + 6] }

InitExpiry ==
    /\ storage = [i \in {"ep1"} |-> NotificationEndpoint(i, TRUE)]
    /\ Idle
    /\ slack = NoSlack
    /\ clock = 0
    /\ feed \in SUBSET ExpiryRecords
    /\ calls = NoCalls
    /\ posts = NoPosts
    /\ unsent = {}
    /\ halfMarked = NoneHalfMarked

NextExpiry ==
    \/ NextWindow
    \/ dayPasses

SpecExpiry == InitExpiry /\ [][NextExpiry]_vars

\* POST /api/endpoints requests in flight together, over any registry; a
\* body may carry an id, also one that is registered, and a createdAt
InitCreate ==
    /\ storage \in Registries
    /\ Idle
    /\ slack = NoSlack
    /\ clock = 0
    /\ feed = {}
    /\ calls = NoCalls
    /\ posts = [NoPosts EXCEPT !.before = storage]
    /\ unsent = {}
    /\ halfMarked = NoneHalfMarked

NextCreate ==
    \/ \E body \in RegistryRecords, uuid \in EndpointIds :
            postReceived([body EXCEPT !.createdAt = "sent"], uuid)
    \/ \E endpoint \in posts.pending : postStored(endpoint)

SpecCreate == InitCreate /\ [][NextCreate]_vars

\* the management requests on a new object
InitRegistry ==
    /\ storage = <<>>
    /\ Idle
    /\ Timeless
    /\ slack = NoSlack

NextRegistry ==
    \/ \E endpoint \in RegistryRecords : addEndpointCalled(endpoint)
    \/ \E body \in RegistryRecords, uuid \in RegistryIds :
            postEndpoints([body EXCEPT !.id = "sent", !.createdAt = "sent"], uuid)
    \/ \E id \in RegistryIds : removeEndpointCalled(id)
    \/ \E id \in RegistryIds, enabled \in BOOLEAN : toggleEndpointCalled(id, enabled)
    \/ getEndpointsCalled
    \/ \E raw \in RawBodies({[body EXCEPT !.id = "sent", !.createdAt = "sent"] :
                                body \in RegistryRecords}),
          uuid \in RegistryIds : postEndpointsRequest(raw, uuid)
    \/ \E id \in RegistryIds,
          raw \in RawBodies({[EmptyBody EXCEPT !.enabled = b] : b \in BOOLEAN}) :
            postToggleRequest(id, raw)

SpecRegistry == InitRegistry /\ [][NextRegistry]_vars

\* the chat-webhook message of every non-empty batch up to MaxSlackBatch
InitSlack ==
    /\ storage \in {reg \in Registries : DOMAIN reg = {}}
    /\ Idle
    /\ Timeless
    /\ \E evs \in SeqsUpTo(SlackEvents, MaxSlackBatch) :
        /\ Len(evs) > 0
        /\ slack = [events |-> evs, message |-> <<>>]

NextSlack == sendSlackBatchCalled

SpecSlack == InitSlack /\ [][NextSlack]_vars

\* the scheduled polls, one after the other, over a registry that starts
\* without an enabled endpoint and is changed through the management API
\* between and during the polls
LateIds == {"ep1", "ep2"}

InitLate ==
    /\ storage \in {[i \in S |-> NotificationEndpoint(i, FALSE)] : S \in SUBSET LateIds}
    /\ Idle
    /\ Timeless
    /\ slack = NoSlack

NextLate ==
    \/ checkAndNotifySecurityEvents("scheduled")
    \/ upstreamResponds("scheduled")
    \/ fetchReturns("scheduled")
    \/ markerLookupReturns("scheduled")
    \/ sendNotificationsBatch("scheduled")
    \/ \E i \in EndpointIds, o \in SendOutcomes : sendReturns("scheduled", i, o)
    \/ markerWriteReturns("scheduled")
    \/ entryReturns("scheduled")
    \/ \E i \in LateIds : addEndpoint(NotificationEndpoint(i, TRUE))
    \/ \E i \in LateIds, enabled \in BOOLEAN : toggleEndpoint(i, enabled)

SpecLate == InitLate /\ [][NextLate]_vars

\* the scheduled polls, one after the other, where every external call that
\* is awaited (the upstream fetch, a marker read, a send, a marker write)
\* returns or fails in the end and the runtime resumes the invocation; the
\* registry holds all three endpoints, the email endpoint enabled
InitLive ==
    /\ storage \in {reg \in Registries : DOMAIN reg = EndpointIds /\ reg["ep3"].enabled}
    /\ Idle
    /\ Timeless
    /\ slack = NoSlack

NextLive ==
    \/ checkAndNotifySecurityEvents("scheduled")
    \/ upstreamResponds("scheduled")
    \/ fetchReturns("scheduled")
    \/ markerLookupReturns("scheduled")
    \/ sendNotificationsBatch("scheduled")
    \/ \E i \in EndpointIds, o \in SendOutcomes : sendReturns("scheduled", i, o)
    \/ markerWriteReturns("scheduled")
    \/ entryReturns("scheduled")

SpecLive ==
    /\ InitLive
    /\ [][NextLive]_vars
    /\ WF_vars(upstreamResponds("scheduled"))
    /\ WF_vars(fetchReturns("scheduled"))
    /\ WF_vars(markerLookupReturns("scheduled"))
    /\ WF_vars(sendNotificationsBatch("scheduled"))
    /\ WF_vars(\E i \in EndpointIds, o \in SendOutcomes : sendReturns("scheduled", i, o))
    /\ WF_vars(markerWriteReturns("scheduled"))

\* ------------------------------------------------------------- claims

Range(f) == {f[k] : k \in DOMAIN f}

Failed == SendOutcomes \ {"ok"}

\* the lookup loop of the run has looked at every fetched event
LoopOver(r) == r.pc \in {"dispatch", "sending", "marking"} \/
               (r.pc = "done" /\ r.caught \notin {"fetch", "kv_get"} /\ r.upstream = "ok")

\* C1: a fetched event whose marker was present at its lookup is in no batch
\* the run sends and gets no marker from the run; a run all of whose fetched
\* events were marked makes no send and writes no marker.
C1_MarkedEventsAreSkipped ==
    \A p \in Procs :
        LET r == run[p]
        IN  /\ \A k \in r.hits :
                /\ k \notin Range(r.picked)
                /\ k \notin r.written
                /\ \A j \in 1..Len(r.batch) : r.batch[j].id # r.events[k].id
            /\ r.sends # NoSends =>
                r.batch = [j \in 1..Len(r.picked) |-> r.events[r.picked[j]]]
            /\ (LoopOver(r) /\ r.hits = 1..Len(r.events)) =>
                /\ r.pc = "done"
                /\ r.sends = NoSends
                /\ r.written = {}

\* a finished run that skipped a marked event and sent an unmarked one
C1_Witness ==
    \E p \in Procs :
        /\ run[p].pc = "done"
        /\ run[p].hits # {}
        /\ run[p].picked # <<>>
        /\ \E i \in EndpointIds : run[p].sends[i] = "ok"

\* C2: a run writes markers only once the dispatch of its batch has
\* completed, and until then no event of the batch has a marker.
C2_DispatchThenMark ==
    \A p \in Procs :
        LET r == run[p]
        IN  /\ r.written # {} =>
                /\ r.joined
                /\ r.batch = r.unprocessedEvents
                /\ \A i \in EndpointIds : r.sends[i] # "pending"
            /\ (~r.joined) =>
                \A k \in Range(r.picked) : PROCESSED_EVENTS[r.events[k].id] = Absent

\* a run that is marking after a dispatch in which a request was made
C2_Witness ==
    \E p \in Procs :
        /\ run[p].pc = "marking"
        /\ run[p].written # {}
        /\ \E i \in EndpointIds : run[p].sends[i] \in SendOutcomes

\* C3: in a dispatch of a non-empty batch every enabled endpoint gets its
\* attempt whatever became of the others, the call waits for every request it
\* made, and it ends in success.
C3_FailureIsolation ==
    \A c \in Callers :
        LET r == run[c]
            enabled == {r.endpoints[k].id : k \in {n \in 1..Len(r.endpoints) :
                                                     r.endpoints[n].enabled}}
        IN  (r.pc \in {"sending", "done"} /\ r.batch # <<>>) =>
                /\ \A j \in enabled : r.sends[j] # "none"
                /\ \A j \in EndpointIds : r.sends[j] = "pending" => r.pc = "sending"
                /\ r.pc = "done" => r.reply = "success" /\ r.joined

\* a dispatch in which the first endpoint failed and the second was delivered
C3_Witness ==
    \E c \in Callers :
        /\ run[c].pc = "done"
        /\ run[c].sends["ep1"] = "network_error"
        /\ run[c].sends["ep2"] = "ok"

\* C4: checkAndNotifySecurityEvents settles normally whatever the upstream
\* fetch, the marker store and the endpoints do, and every entry point
\* reports success.
C4_NeverThrows ==
    \A p \in Procs :
        /\ run[p].reply # "error"
        /\ run[p].pc = "done" => run[p].reply = "success"
        /\ run[p].caught # "none" => run[p].pc = "done"

\* a run that ended in its catch after a marker write failed
C4_Witness ==
    \E p \in Procs :
        /\ run[p].pc = "done"
        /\ run[p].caught = "kv_put"
        /\ run[p].reply = "success"

\* C5: an upstream fetch that fails ends the run at once with no endpoint
\* send and no marker written, leaves the registry and the markers as they
\* were, is reported as success, and leaves the invocation as it was before
\* the run, so that the next poll starts from the same state.
C5_FetchFailureAbortsPollOnly ==
    [][\A p \in Procs :
        /\ (run[p].pc = "fetching" /\ run[p].response.outcome \notin {"none", "ok"}) =>
            /\ run'[p].upstream = run[p].response.outcome
            /\ run'[p].pc = "done"
            /\ run'[p].caught = "fetch"
            /\ run'[p].reply = "success"
            /\ run'[p].sends = NoSends
            /\ run'[p].written = {}
            /\ storage' = storage
            /\ PROCESSED_EVENTS' = PROCESSED_EVENTS
        /\ (run[p].pc = "done" /\ run[p].caught = "fetch" /\ run'[p] # run[p]) =>
            /\ run'[p] = Frame
            /\ afterFailure'
            /\ storage' = storage
            /\ PROCESSED_EVENTS' = PROCESSED_EVENTS]_vars

\* the poll after one whose fetch answered with a non-success status fetched
\* events, delivered them and marked them
C5_Witness ==
    /\ afterFailure
    /\ \E p \in Procs :
        /\ run[p].pc = "done"
        /\ run[p].upstream = "ok"
        /\ run[p].caught = "none"
        /\ run[p].written # {}
        /\ \E i \in EndpointIds : run[p].sends[i] = "ok"

\* C6: a dispatch called with an empty batch makes no request and creates no
\* promise for any endpoint, whatever the registry holds, and returns normally.
C6_EmptyBatchSendsNothing ==
    \A c \in Callers :
        (run[c].pc \in {"sending", "done"} /\ run[c].batch = <<>>) =>
            /\ run[c].sends = NoSends
            /\ run[c].pc = "done"
            /\ run[c].reply = "success"

\* a dispatch of an empty batch has returned and the registry it read held an
\* enabled webhook endpoint
C6_Witness ==
    \E c \in Callers :
        /\ run[c].pc = "done"
        /\ run[c].batch = <<>>
        /\ \E k \in 1..Len(run[c].endpoints) :
            run[c].endpoints[k].enabled /\ run[c].endpoints[k].type = "webhook"

\* the endpoints of the registry as read by the dispatch that takes a request
Requestable(r) ==
    {r.endpoints[k].id : k \in {n \in 1..Len(r.endpoints) :
        r.endpoints[n].enabled /\ r.endpoints[n].type \in {"webhook", "slack"}}}

\* the endpoints the dispatch made a request to
Requested(r) == {i \in EndpointIds : r.sends[i] \in SendOutcomes \cup {"pending"}}

\* C7 as stated: no request goes to an endpoint disabled in the registry the
\* dispatch read, and the requests of a dispatch are as many as the enabled
\* webhook and slack endpoints.
C7_AsStated ==
    \A c \in Callers :
        LET r == run[c]
        IN  r.pc \in {"sending", "done"} =>
                /\ \A k \in 1..Len(r.endpoints) :
                    ~r.endpoints[k].enabled => r.sends[r.endpoints[k].id] = "none"
                /\ Cardinality(Requested(r)) = Cardinality(Requestable(r))

\* C7 as amended: no request goes to an endpoint that is disabled in, or
\* missing from, the registry the dispatch read, whatever the batch; for a
\* non-empty batch the requests go to exactly the enabled webhook and slack
\* endpoints, and for an empty batch there are none.
C7_OnlyEnabledEndpoints ==
    \A c \in Callers :
        LET r == run[c]
        IN  r.pc \in {"sending", "done"} =>
                /\ \A k \in 1..Len(r.endpoints) :
                    ~r.endpoints[k].enabled => r.sends[r.endpoints[k].id] = "none"
                /\ \A i \in EndpointIds :
                    (\A k \in 1..Len(r.endpoints) : r.endpoints[k].id # i) =>
                        r.sends[i] = "none"
                /\ r.batch # <<>> => Requested(r) = Requestable(r)
                /\ r.batch = <<>> => Requested(r) = {}

\* a dispatch of a non-empty batch over a registry with a disabled webhook and
\* an enabled slack endpoint has returned
C7_Witness ==
    \E c \in Callers :
        /\ run[c].pc = "done"
        /\ run[c].batch # <<>>
        /\ \E k \in 1..Len(run[c].endpoints) :
            run[c].endpoints[k].id = "ep1" /\ ~run[c].endpoints[k].enabled
        /\ run[c].sends["ep2"] \in SendOutcomes

\* the event detail entries of a message, and its count-remaining notes
DetailEntries(m) ==
    SelectSeq(m.blocks, LAMBDA b : b.type = "section" /\ "index" \in DOMAIN b)

RemainingNotes(m) == SelectSeq(m.blocks, LAMBDA b : b.type = "context")

Min(a, b) == IF a < b THEN a ELSE b

\* C8: the chat-webhook message of a batch of N events holds min(N, 5) detail
\* entries, the k-th being the entry of the k-th event of the batch; for N > 5
\* it holds one note, which is its last block and counts N - 5, and for
\* N <= 5 it holds no note.
C8_SlackTruncation ==
    slack.message # <<>> =>
        LET N == Len(slack.events)
            entries == DetailEntries(slack.message)
            notes == RemainingNotes(slack.message)
            blocks == slack.message.blocks
        IN  /\ Len(entries) = Min(N, DetailLimit)
            /\ \A k \in 1..Len(entries) :
                entries[k] = detailBlocks(slack.events[k], k)[2]
            /\ N > DetailLimit =>
                /\ Len(notes) = 1
                /\ notes[1].more = N - DetailLimit
                /\ blocks[Len(blocks)] = notes[1]
            /\ N <= DetailLimit => Len(notes) = 0

\* the message of a batch of more than five events in which the sixth event
\* differs from the first
C8_Witness ==
    /\ slack.message # <<>>
    /\ Len(slack.events) > DetailLimit
    /\ slack.events[DetailLimit + 1] # slack.events[1]
    /\ Len(RemainingNotes(slack.message)) = 1

\* the positions of the fetched events that are in the run's batch
Batched(r) == {r.picked[j] : j \in 1..Len(r.batch)}

C10_FailedSendIsRetried ==
    \A p \in Procs :
        LET r == run[p]
        IN  (r.pc = "done" /\ r.caught = "none") =>
                \A k \in r.sawLost :
                    /\ k \in Batched(r)
                    /\ r.joined

\* C11: an event that a run found new and had not marked when it stopped has
\* no marker until a later run writes it, and a later poll that looks it up
\* takes it as new and, once past the lookups, has it in the batch it hands
\* to every enabled webhook and slack endpoint.
C11_AtLeastOnceUnderCrash ==
    /\ \A id \in crashed : PROCESSED_EVENTS[id] = Absent
    /\ \A p \in Procs :
        LET r == run[p]
        IN  \A k \in r.sawCrashed :
                /\ k \in Range(r.picked)
                /\ k \notin r.hits
                /\ (r.pc \in {"sending", "marking"} \/ (r.pc = "done" /\ r.joined)) =>
                    /\ k \in Batched(r)
                    /\ r.batch[CHOOSE j \in 1..Len(r.batch) : r.picked[j] = k] = r.events[k]
                    /\ Requested(r) = Requestable(r)

\* a poll has delivered an event that an earlier run, stopped while its
\* requests were in flight, had left unmarked
C11_Witness ==
    \E p \in Procs :
        /\ run[p].pc = "done"
        /\ run[p].caught = "none"
        /\ run[p].sawCrashed # {}
        /\ \E i \in EndpointIds : run[p].sends[i] = "ok"

\* the entries of a listing of the registry that carry the id
Listed(id) == SelectSeq(getEndpoints(storage), LAMBDA e : e.id = id)

ListedIds == {getEndpoints(storage)[k].id : k \in 1..Len(getEndpoints(storage))}

\* C12: toggleEndpoint with an id that is not registered settles normally and
\* leaves the registry as it was: the same ids with the same records.
C12_ToggleUnknownIsNoOp ==
    (request.op = "toggleEndpoint" /\ request.id \notin DOMAIN request.before) =>
        /\ request.settled = "fulfilled"
        /\ DOMAIN storage = DOMAIN request.before
        /\ \A i \in DOMAIN storage : storage[i] = request.before[i]

\* an unregistered id was toggled while another id was registered
C12_Witness ==
    /\ request.op = "toggleEndpoint"
    /\ request.id \notin DOMAIN request.before
    /\ DOMAIN request.before # {}

\* C13 as stated: every listing holds, for each id added and not removed
\* since, exactly one entry, equal to the endpoint as it was added (for a
\* POST: the body with the assigned id and createdAt).
C13_AsStated ==
    /\ request.op = "POST /api/endpoints" =>
        /\ request.endpoint = [request.body EXCEPT !.id = request.endpoint.id,
                                                   !.createdAt = "now"]
        /\ request.endpoint.id \notin DOMAIN request.before
    /\ \A id \in DOMAIN created :
        /\ Len(Listed(id)) = 1
        /\ Listed(id)[1] = created[id].endpoint

\* C13 as amended: every listing holds, for each id added and not removed
\* since, exactly one entry; it equals the endpoint of the latest add of the
\* id in every field but enabled, which is the value of the latest toggle of
\* the id since that add, or the added value if there was none.
C13_CreateListRoundTrip ==
    /\ request.op = "POST /api/endpoints" =>
        /\ request.endpoint = [request.body EXCEPT !.id = request.endpoint.id,
                                                   !.createdAt = "now"]
        /\ request.endpoint.id \notin DOMAIN request.before
    /\ \A id \in DOMAIN created :
        /\ Len(Listed(id)) = 1
        /\ Listed(id)[1] =
            [created[id].endpoint EXCEPT !.enabled =
                IF created[id].toggles = <<>> THEN @ ELSE created[id].toggles[1]]

\* a listing was made after a POST whose registration is disabled and listed
C13_Witness ==
    /\ request.op = "getEndpoints"
    /\ \E k \in 1..Len(request.endpoints) :
        /\ request.endpoints[k].createdAt = "now"
        /\ ~request.endpoints[k].enabled
        /\ created[request.endpoints[k].id].toggles = <<>>

\* C14: a listing never holds two entries with one id; after addEndpoint the
\* record of the endpoint's id is the endpoint added, whether or not the id
\* was stored before, the other records are as they were, and adding the same
\* endpoint again changes nothing.
C14_AddIsIdempotentUpsert ==
    /\ Len(getEndpoints(storage)) = Cardinality(ListedIds)
    /\ request.op = "addEndpoint" =>
        /\ request.settled = "fulfilled"
        /\ DOMAIN storage = DOMAIN request.before \cup {request.endpoint.id}
        /\ storage[request.endpoint.id] = request.endpoint
        /\ \A i \in DOMAIN request.before \ {request.endpoint.id} :
            storage[i] = request.before[i]
        /\ storagePut(storage, request.endpoint) = storage

\* an endpoint was added under an id that held a different record
C14_Witness ==
    /\ request.op = "addEndpoint"
    /\ request.endpoint.id \in DOMAIN request.before
    /\ request.before[request.endpoint.id] # request.endpoint
    /\ storage[request.endpoint.id] = request.endpoint

\* C15: the ids listed are those added and not removed since; after
\* removeEndpoint the id is not stored, every other record is as it was, the
\* call settles normally, and if the id was not registered nothing changed.
C15_RemoveDeletesExactlyOne ==
    /\ ListedIds = DOMAIN created
    /\ request.op = "removeEndpoint" =>
        /\ request.settled = "fulfilled"
        /\ request.id \notin DOMAIN storage
        /\ Listed(request.id) = <<>>
        /\ DOMAIN storage = DOMAIN request.before \ {request.id}
        /\ \A i \in DOMAIN storage : storage[i] = request.before[i]

\* a registered id was removed while another id stayed registered
C15_Witness ==
    /\ request.op = "removeEndpoint"
    /\ request.id \in DOMAIN request.before
    /\ DOMAIN storage # {}

\* C16: after toggleEndpoint on a registered id the record differs from the
\* one before in enabled only, which is the value given; the other records
\* are as they were, and the same toggle again changes nothing.
C16_ToggleSetsOnlyEnabled ==
    (request.op = "toggleEndpoint" /\ request.id \in DOMAIN request.before) =>
        /\ request.settled = "fulfilled"
        /\ DOMAIN storage = DOMAIN request.before
        /\ storage[request.id] =
            [request.before[request.id] EXCEPT !.enabled = request.enabled]
        /\ \A i \in DOMAIN storage \ {request.id} : storage[i] = request.before[i]
        /\ toggleEndpointIn(storage, request.id, request.enabled).storage = storage

\* a registered id was toggled to the value it already had, with another id
\* registered
C16_Witness ==
    /\ request.op = "toggleEndpoint"
    /\ request.id \in DOMAIN request.before
    /\ request.before[request.id].enabled = request.enabled
    /\ DOMAIN storage # {request.id}

\* the positions of an upstream result whose action is one of block,
\* challenge, jschallenge, and the k-th of them in upstream order
Passing(result) ==
    {n \in 1..Len(result) : result[n].action \in {"block", "challenge", "jschallenge"}}

Nth(K, k) == CHOOSE n \in K : Cardinality({m \in K : m < n}) = k - 1

\* the step in which fetchSecurityEvents returns for an answer that is ok
Fetched(p) ==
    /\ run[p].pc = "fetching"
    /\ run[p].response.outcome = "ok"
    /\ run'[p].pc # "fetching"

\* C17: the events fetchSecurityEvents returns are, in upstream order, the
\* records of the result with action block, challenge or jschallenge and no
\* others; no event with another action is ever among the events of a run,
\* in a batch or marked, and every marker is that of an event with one of the
\* three actions.
C17_ActionAllowList ==
    /\ [][\A p \in Procs : Fetched(p) =>
            LET result == run[p].response.result
                K == Passing(result)
                events == run'[p].events
            IN  /\ Len(events) = Cardinality(K)
                /\ \A k \in 1..Len(events) :
                    /\ events[k].id = result[Nth(K, k)].ray_id
                    /\ events[k].action = result[Nth(K, k)].action]_vars
    /\ [](\A p \in Procs :
            LET r == run[p]
            IN  /\ \A k \in 1..Len(r.events) :
                    r.events[k].action \in {"block", "challenge", "jschallenge"}
                /\ \A j \in 1..Len(r.batch) : r.batch[j] = r.events[r.picked[j]]
                /\ r.written \subseteq 1..Len(r.events))
    /\ [](\A id \in EventIds : Truthy(PROCESSED_EVENTS[id]) =>
            \E raw \in AnyRawRecords :
                /\ raw.ray_id = id
                /\ raw.action \in {"block", "challenge", "jschallenge"}
                /\ PROCESSED_EVENTS[id] = Serialized(SecurityEvent(raw)))

\* a poll whose one event is a jschallenge ended with the event delivered and
\* marked
C17_Witness ==
    /\ run["scheduled"].pc = "done"
    /\ Len(run["scheduled"].events) = 1
    /\ run["scheduled"].events[1].action = "jschallenge"
    /\ run["scheduled"].sends["ep1"] = "ok"
    /\ run["scheduled"].written = {1}

\* C18 as stated: the ruleName of a fetched event is the rule_message of its
\* record when the record has one and "Unknown" when it has none, and the
\* events handed to the endpoints carry that ruleName.
C18_AsStated ==
    /\ [][\A p \in Procs : Fetched(p) =>
            LET result == run[p].response.result
                K == Passing(result)
                events == run'[p].events
            IN  \A k \in 1..Len(events) :
                    events[k].ruleName =
                        IF result[Nth(K, k)].rule_message # Absent
                        THEN result[Nth(K, k)].rule_message
                        ELSE "Unknown"]_vars
    /\ [](\A p \in Procs : \A j \in 1..Len(run[p].batch) :
            run[p].batch[j].ruleName = run[p].events[run[p].picked[j]].ruleName)

\* C18 as amended: the ruleName of a fetched event is the rule_message of its
\* record when the record has one that is not empty, and "Unknown" when the
\* field is missing or empty, and the events handed to the endpoints carry
\* that ruleName.
C18_RuleNameDefault ==
    /\ [][\A p \in Procs : Fetched(p) =>
            LET result == run[p].response.result
                K == Passing(result)
                events == run'[p].events
            IN  /\ Len(events) = Cardinality(K)
                /\ \A k \in 1..Len(events) :
                    events[k].ruleName =
                        IF result[Nth(K, k)].rule_message \notin {Absent, ""}
                        THEN result[Nth(K, k)].rule_message
                        ELSE "Unknown"]_vars
    /\ [](\A p \in Procs : \A j \in 1..Len(run[p].batch) :
            run[p].batch[j].ruleName = run[p].events[run[p].picked[j]].ruleName)

\* a batch of an event with a rule name and an event named Unknown was
\* delivered
C18_Witness ==
    /\ run["scheduled"].pc \in {"marking", "done"}
    /\ run["scheduled"].sends["ep1"] = "ok"
    /\ \E j \in 1..Len(run["scheduled"].batch) :
        run["scheduled"].batch[j].ruleName = "Unknown"
    /\ \E j \in 1..Len(run["scheduled"].batch) :
        run["scheduled"].batch[j].ruleName = "SQLi"

\* C19: a call of sendNotifications or sendNotificationsBatch never ends in an
\* error: it ends in success whatever the sends came to, also when every
\* enabled endpoint failed and when a webhook has no url, and the names logged
\* by its catches are exactly those of the endpoints whose send failed.
C19_DispatchAlwaysSucceeds ==
    \A c \in Callers :
        LET r == run[c]
            failed == {i \in EndpointIds : r.sends[i] \in Failed}
        IN  /\ r.reply # "error"
            /\ r.caught = "none"
            /\ r.errors = {endpointOf(r, i).name : i \in failed}
            /\ r.pc = "done" =>
                /\ r.called \in {"sendNotifications", "sendNotificationsBatch"}
                /\ r.reply = "success"
                /\ \A i \in EndpointIds : r.sends[i] # "pending"

\* sendNotifications has returned after the send to a webhook without url and
\* the send to the slack endpoint both failed
C19_Witness ==
    \E c \in Callers :
        /\ run[c].pc = "done"
        /\ run[c].called = "sendNotifications"
        /\ run[c].reply = "success"
        /\ run[c].sends["ep1"] = "network_error"
        /\ ~Truthy(endpointOf(run[c], "ep1").url)
        /\ run[c].sends["ep2"] = "http_error"
        /\ run[c].errors = {"Ops webhook", "Sec channel"}

\* C20: no endpoint gets a second request within one poll, and a poll that
\* found new events and ended normally has made one request to every enabled
\* webhook and slack endpoint, for a batch of all the new events.
C20_OneRequestPerEndpoint ==
    \A p \in Procs :
        LET r == run[p]
        IN  /\ \A i \in EndpointIds : r.requests[i] <= 1
            /\ (r.pc = "done" /\ r.caught = "none" /\ Len(r.picked) >= 1) =>
                /\ \A i \in Requestable(r) : r.requests[i] = 1
                /\ Len(r.batch) = Len(r.picked)

\* the positions of the enabled endpoints of a type in the registry read
EnabledOfType(r, type) ==
    {k \in 1..Len(r.endpoints) : r.endpoints[k].enabled /\ r.endpoints[k].type = type}

\* the registry read without its email endpoints
WithoutEmail(r) == SelectSeq(r.endpoints, LAMBDA ep : ep.type # "email")

WellFormed(ep) ==
    \/ ep.type \in {"webhook", "slack"} /\ Truthy(ep.url) /\ ~Truthy(ep.email)
    \/ ep.type = "email" /\ Truthy(ep.email) /\ ~Truthy(ep.url)

\* C22 as stated: every stored endpoint has exactly one of url and email
\* populated, consistent with its type.
C22_AsStated == \A i \in DOMAIN storage : WellFormed(storage[i])

\* C22 as amended: every stored endpoint has the type, url and email of the
\* record last added under its id, so it has exactly one of url and email
\* populated, consistent with its type, exactly when that record had.
C22_StoredAsSupplied ==
    \A i \in DOMAIN storage :
        /\ i \in DOMAIN created
        /\ storage[i].type = created[i].endpoint.type
        /\ storage[i].url = created[i].endpoint.url
        /\ storage[i].email = created[i].endpoint.email
        /\ WellFormed(storage[i]) <=> WellFormed(created[i].endpoint)

\* a webhook posted without url is stored, beside a well-formed record, and
\* has been toggled since
C22_Witness ==
    /\ \E i \in DOMAIN storage :
        /\ ~WellFormed(storage[i])
        /\ created[i].toggles # <<>>
        /\ created[i].endpoint.createdAt = "now"
    /\ \E i \in DOMAIN storage : WellFormed(storage[i])

\* the ids of the events in the batch of a run
BatchIds(r) == {r.batch[j].id : j \in 1..Len(r.batch)}

\* C23: two invocations do not both make a request to the same endpoint for
\* a batch holding the same event id.
C23_OverlapDispatchesOnce ==
    \A p, q \in Procs :
        p # q =>
            \A i \in EndpointIds :
                (i \in Requested(run[p]) /\ i \in Requested(run[q])) =>
                    BatchIds(run[p]) \cap BatchIds(run[q]) = {}

\* C24: when a poll whose fetch succeeded ends normally after a poll whose
\* fetch failed, its window overlaps the window of the failed poll, and every
\* allow-listed record of the upstream that occurred in the failed window is
\* in its batch or has a marker.
C24_FailedWindowIsRecovered ==
    \A p \in Procs :
        LET r == run[p]
        IN  (r.pc = "done" /\ r.upstream = "ok" /\ r.caught = "none" /\ afterFailure) =>
                /\ r.since < r.until - Interval
                /\ \A x \in inWindow(feed, r.since - Interval, r.until - Interval) :
                    x.action \in allowedActions =>
                        \/ x.ray_id \in BatchIds(r)
                        \/ PROCESSED_EVENTS[x.ray_id] # Absent

\* C25: while a request of a run's dispatch is in flight the run waits in
\* the dispatch, has written no marker and no event of its batch has one;
\* once the dispatch has returned, the request to every enabled webhook and
\* slack endpoint has completed, in success or in failure, and a run marks
\* only after that.
C25_JoinBarrier ==
    \A p \in Procs :
        LET r == run[p]
        IN  /\ (\E i \in EndpointIds : r.sends[i] = "pending") =>
                /\ r.pc = "sending"
                /\ ~r.joined
                /\ r.written = {}
                /\ \A j \in 1..Len(r.batch) : PROCESSED_EVENTS[r.batch[j].id] = Absent
            /\ r.joined =>
                /\ Requested(r) = Requestable(r)
                /\ \A i \in Requestable(r) : r.sends[i] \in SendOutcomes
            /\ r.pc = "marking" => r.joined

\* the request to the slack endpoint has failed while the request to the
\* webhook, which was made first, is still in flight
C25_Witness ==
    \E p \in Procs :
        /\ run[p].pc = "sending"
        /\ run[p].sends["ep1"] = "pending"
        /\ run[p].sends["ep2"] \in Failed
        /\ run[p].batch # <<>>

Recipients(r) == {i \in EndpointIds : r.sends[i] # "none"}

\* the ids registered and enabled in a registry
EnabledIn(reg) == {i \in DOMAIN reg : reg[i].enabled}

\* C27: the dispatch of a non-empty batch reads the registry once, when it
\* starts, and its recipients are exactly the endpoints registered and
\* enabled in the registry at that read; from then until the call returns the
\* endpoints it read and its recipients stay the same, whatever is added,
\* removed or toggled meanwhile.
C27_SnapshotPerDispatch ==
    [][\A c \in Callers :
        /\ (run[c].pc = "dispatch" /\ run[c].batch # <<>> /\ run'[c].pc # "dispatch") =>
            /\ run'[c].endpoints = getEndpoints(storage)
            /\ Recipients(run'[c]) = EnabledIn(storage)
        /\ (run[c].pc = "sending" /\ run'[c].pc \in {"sending", "done"}) =>
            /\ run'[c].endpoints = run[c].endpoints
            /\ Recipients(run'[c]) = Recipients(run[c])
            /\ run'[c].requests = run[c].requests]_vars

\* a dispatch has returned whose recipients are no longer the enabled
\* endpoints of the registry: one was removed or disabled and another added
\* or enabled while the requests were in flight
C27_Witness ==
    \E c \in Callers :
        /\ run[c].pc = "done"
        /\ run[c].batch # <<>>
        /\ Recipients(run[c]) \ EnabledIn(storage) # {}
        /\ EnabledIn(storage) \ Recipients(run[c]) # {}

\* the marker of an id is present: written and not yet expired
MarkerPresent(id) == PROCESSED_EVENTS[id] # Absent /\ clock < expiration[id]

\* C28: a marker is written under its event's id with the serialized event
\* and expires 24 hours after the write; an event looked up while the marker
\* of its id is present is not taken into the batch, an event looked up when
\* the marker is absent, never written or expired, is; and the batch a run
\* dispatches holds exactly the events taken and goes to the enabled
\* endpoint.
C28_MarkerDecidesEligibility ==
    /\ [](\A p \in Procs :
            LET r == run[p]
            IN  (r.pc \in {"sending", "marking"} \/ (r.pc = "done" /\ r.joined)) =>
                    /\ r.batch = [j \in 1..Len(r.picked) |-> r.events[r.picked[j]]]
                    /\ Requested(r) = Requestable(r)
                    /\ Requested(r) # {})
    /\ [][\A p \in Procs :
            /\ (run[p].pc = "lookup" /\ run'[p].caught # "kv_get") =>
                LET k == run[p].idx
                    id == run[p].events[k].id
                IN  /\ MarkerPresent(id) =>
                        run'[p].picked = run[p].picked /\ k \in run'[p].hits
                    /\ ~MarkerPresent(id) =>
                        run'[p].picked = Append(run[p].picked, k)
            /\ \A id \in EventIds :
                (run[p].pc = "marking" /\ PROCESSED_EVENTS'[id] # PROCESSED_EVENTS[id]) =>
                    /\ id = run[p].unprocessedEvents[run[p].markIdx].id
                    /\ PROCESSED_EVENTS'[id] =
                            Serialized(run[p].unprocessedEvents[run[p].markIdx])
                    /\ expiration'[id] = clock + expirationTtl \div 60]_vars

\* a day after its marker was written, the marker has expired and an event
\* with the same id is in the batch being sent
C28_Witness ==
    \E p \in Procs :
        /\ run[p].pc = "sending"
        /\ "r1" \in BatchIds(run[p])
        /\ PROCESSED_EVENTS["r1"] # Absent
        /\ expiration["r1"] <= clock

\* C29: after k POST /api/endpoints requests have been answered, in any
\* order and with any overlap, on a registry of n records, the registry holds
\* n + k records; the n records are unchanged, and every other record is
\* stored under the id it carries, which is one randomUUID assigned and no id
\* of the n, with the createdAt the server set.
C29_CreateNeverOverwrites ==
    /\ Cardinality(DOMAIN storage) = Cardinality(DOMAIN posts.before) + posts.done
    /\ \A i \in DOMAIN posts.before :
        i \in DOMAIN storage /\ storage[i] = posts.before[i]
    /\ \A i \in DOMAIN storage \ DOMAIN posts.before :
        /\ i \in posts.issued
        /\ storage[i].id = i
        /\ storage[i].createdAt = "now"
    /\ \A e \in posts.pending : e.id \notin DOMAIN storage

\* two requests have been answered over a registry of one record, which now
\* holds three
C29_Witness ==
    /\ posts.done = 2
    /\ Cardinality(DOMAIN posts.before) = 1
    /\ Cardinality(DOMAIN storage) = 3
    /\ request.op = "POST /api/endpoints"
    /\ request.endpoint.id \notin DOMAIN request.before
    /\ Cardinality(DOMAIN request.before) = 2

\* C30: the batch a poll dispatches is the sequence of the fetched events
\* that have no marker, in the order they were fetched: until the run marks,
\* it is the fetched sequence filtered by the absence of a marker, and
\* throughout it holds the events at increasing fetched positions, which are
\* all the positions but those whose marker was found.
C30_BatchIsUnmarkedSubsequence ==
    \A p \in Procs :
        LET r == run[p]
        IN  /\ r.pc \in {"dispatch", "sending"} =>
                r.batch = SelectSeq(r.events, LAMBDA e : kvGet(e.id) = Absent)
            /\ (r.pc \in {"dispatch", "sending", "marking"} \/ (r.pc = "done" /\ r.joined)) =>
                /\ r.batch = [j \in 1..Len(r.picked) |-> r.events[r.picked[j]]]
                /\ \A j \in 1..(Len(r.picked) - 1) : r.picked[j] < r.picked[j + 1]
                /\ Range(r.picked) = (1..Len(r.events)) \ r.hits
                /\ r.batch # <<>>

\* a batch of the two events fetched, r2 before r1, is being sent in that
\* order
C30_Witness ==
    \E p \in Procs :
        /\ run[p].pc = "sending"
        /\ Len(run[p].events) = 2
        /\ run[p].events[1].id = "r2"
        /\ run[p].batch = run[p].events
        /\ run[p].batch[2].id = "r1"

\* the webhook endpoints a dispatch made a request to
WebhooksRequested(r) ==
    {i \in Requested(r) : endpointOf(r, i).type = "webhook"}

RECURSIVE SumCounts(_)
SumCounts(summary) ==
    IF Len(summary) = 0 THEN 0
    ELSE summary[Len(summary)].count + SumCounts(SubSeq(summary, 1, Len(summary) - 1))

\* the events of a batch with an action
WithAction(evs, action) == {k \in 1..Len(evs) : evs[k].action = action}

\* C32: the message of a non-empty batch of N events has N in its text and
\* in its header; its summary has one entry per distinct action of the batch,
\* in upper case, whose count is the number of events of the whole batch with
\* that action, so that the counts sum to N; and its time range runs from the
\* time of the first event of the batch to the time of the last.
C32_SlackSummary ==
    slack.message # <<>> =>
        LET evs == slack.events
            N == Len(evs)
            header == slack.message.blocks[1]
            section == slack.message.blocks[2]
            summary == section.summary
            actions == {evs[k].action : k \in 1..N}
        IN  /\ slack.message.text = N
            /\ header.type = "header" /\ header.count = N
            /\ Len(summary) = Cardinality(actions)
            /\ \A a \in actions :
                \E k \in 1..Len(summary) :
                    /\ summary[k].action = toUpperCase(a)
                    /\ summary[k].count = Cardinality(WithAction(evs, a))
            /\ SumCounts(summary) = N
            /\ section.from = toLocaleString(evs[1].timestamp)
            /\ section.to = toLocaleString(evs[N].timestamp)

\* the message of a batch of more than five events with two actions, one of
\* which occurs among the events past the fifth, whose first and last events
\* differ in time
C32_Witness ==
    /\ slack.message # <<>>
    /\ Len(slack.events) > DetailLimit
    /\ Len(slack.message.blocks[2].summary) = 2
    /\ slack.events[Len(slack.events)].action # slack.events[1].action
    /\ slack.message.blocks[2].from # slack.message.blocks[2].to

\* C33: a management request whose body is not valid JSON ends in an error
\* and leaves the registry as it was, while a request whose body is a JSON
\* object ends in success.
C33_MalformedBodyChangesNothing ==
    "raw" \in DOMAIN request =>
        /\ ~request.raw.valid =>
            /\ request.settled = "rejected"
            /\ request.op = "request.json()"
            /\ storage = request.before
        /\ request.raw.valid => request.settled = "fulfilled"

\* a toggle request with a body that is no JSON has failed over a registry
\* that holds the id it named
C33_Witness ==
    /\ request.op = "request.json()"
    /\ request.route = "POST /api/endpoints/{id}/toggle"
    /\ request.settled = "rejected"
    /\ "ep1" \in DOMAIN storage
    /\ storage["ep1"].enabled

\* C34: a run that finds no enabled endpoint makes no request and still
\* writes a marker for every new event; an event marked that way is in no
\* later batch while its marker is present, whatever is added or enabled.
C34_ConsumedWithoutEndpoint ==
    \A p \in Procs :
        LET r == run[p]
            ids == {r.batch[j].id : j \in 1..Len(r.batch)}
        IN  /\ (r.joined /\ Len(activeEndpoints(r.endpoints)) = 0) =>
                /\ r.requests = NoRequests
                /\ r.pc \in {"marking", "done"}
                /\ (r.pc = "done" /\ r.caught = "none") =>
                        \A id \in ids : id \in unsent /\ Truthy(kvGet(id))
            /\ r.pc \in {"dispatch", "sending"} =>
                \A id \in ids : ~(id \in unsent /\ Truthy(kvGet(id)))

\* a poll has skipped an event that an earlier run marked without a send,
\* although an endpoint is enabled by now
C34_Witness ==
    LET r == run["scheduled"]
    IN  /\ r.pc = "done"
        /\ \E k \in r.hits : r.events[k].id \in unsent
        /\ Len(r.events) = 2
        /\ r.requests = NoRequests
        /\ \E i \in DOMAIN storage : storage[i].enabled

\* C35: the batch for which requests were made holds each event id at most
\* once.
C35_BatchIdsOnce ==
    \A p \in Procs :
        LET r == run[p]
        IN  Requested(r) # {} =>
                \A j, k \in 1..Len(r.batch) :
                    r.batch[j].id = r.batch[k].id => j = k

\* the ids of the events a run fetched
FetchedIds(r) == {r.events[j].id : j \in 1..Len(r.events)}

C37_MarkersOnlyForDispatched ==
    [][/\ \A p \in Procs :
            (run[p].pc = "marking" /\ run'[p].written # run[p].written) =>
                LET r == run[p]
                    event == r.unprocessedEvents[r.markIdx]
                IN  /\ r.joined
                    /\ event.id \in BatchIds(r)
                    /\ event.action \in allowedActions
                    /\ PROCESSED_EVENTS'[event.id] = Serialized(event)
                    /\ ~Truthy(kvGet(event.id))
       /\ \A id \in EventIds :
            /\ PROCESSED_EVENTS'[id] # PROCESSED_EVENTS[id] =>
                    \E p \in Procs : run'[p].written # run[p].written
            /\ Truthy(PROCESSED_EVENTS[id]) => Truthy(PROCESSED_EVENTS'[id])
       /\ storage' # storage =>
            PROCESSED_EVENTS' = PROCESSED_EVENTS /\ expiration' = expiration]_vars

\* the calls a run has made so far: one upstream fetch, no more marker reads
\* than fetched events, at most one request per enabled endpoint and none to
\* another, no more marker writes than new events
CallsBounded(r) ==
    /\ r.fetches = 1
    /\ r.reads <= Len(r.events)
    /\ r.writes <= Len(r.unprocessedEvents)
    /\ \A i \in EndpointIds :
        /\ r.requests[i] <= 1
        /\ r.requests[i] = 1 =>
            \E k \in 1..Len(r.endpoints) : r.endpoints[k].id = i /\ r.endpoints[k].enabled

\* C38: every run that has started ends, and a run makes one upstream fetch,
\* at most one marker read per fetched event, at most one request per enabled
\* endpoint and at most one marker write per new event.
C38_RunTerminates ==
    /\ [](\A p \in Procs : run[p].pc # "idle" => CallsBounded(run[p]))
    /\ \A p \in Procs : (run[p].pc \notin {"idle", "done"}) ~> (run[p].pc = "done")

\* a run has ended after reading two markers, sending to two endpoints and
\* writing two markers
C38_Witness ==
    LET r == run["scheduled"]
    IN  /\ r.pc = "done"
        /\ r.caught = "none"
        /\ r.fetches = 1
        /\ r.reads = 2
        /\ r.writes = 2
        /\ Cardinality(Requested(r)) = 2

====
